---- MODULE Spec2Model ----
(***************************************************************************)
(* A model of the brokerage client HantuStock (src/HantuStock.py): the     *)
(* construction of an instance, the retry loops of _get_access_token and   *)
(* _request, the paginated balance and transaction-history queries and the *)
(* cash orders.  The brokerage server is the environment: every HTTP       *)
(* attempt draws its outcome from a set of responses and exceptions.       *)
(* Time is counted in tenths of a second.                                  *)
(***************************************************************************)
EXTENDS Integers, Sequences, FiniteSets, TLC

\* ------------------------------------------------------------ constants

\* backoff = 0.5 (in tenths of a second)
InitialBackoff == 5

\* min(backoff * 2, 5.0) (in tenths of a second)
BackoffCap == 50

RetryBudgetSeven == 6 + 1

RetryBudgetFive == 6 - 1

\* for attempt in range(6)
RetryBudget == 6

\* The number of pages the server lets one paginated query run to: past it
\* the server no longer answers tr_cont "F" or "M".
MaxPages == 2

None == "<None>"

\* dict.get(key, default)
Get(d, k, default) == IF k \in DOMAIN d THEN d[k] ELSE default

Min(a, b) == IF a < b THEN a ELSE b

\* ------------------------------------------------- HantuStock.__init__

\* The values of the env argument and of the KIS_ENV variable that are tried.
EnvArgs == {None, "", "prod", " PROD", "vps", "Paper", "demo", "sandbox", "vts", "real"}

KisEnvs == {None, "vps", "live"}

\* s.strip().lower(), on the values above
StripLower(s) ==
  CASE s = " PROD" -> "prod"
    [] s = "Paper" -> "paper"
    [] OTHER -> s

\* os.getenv(name, default): the variable's value, the default when unset
Getenv(value, default) == IF value = None THEN default ELSE value

\* env or os.getenv("KIS_ENV", "prod"): None and "" are falsy
RawEnv(envArg, kisEnv) ==
  IF envArg \in {None, ""} THEN Getenv(kisEnv, "prod") ELSE envArg

AcceptedEnvs == {"prod", "vps", "paper", "demo", "sandbox", "vts"}

VpsAliasesOnlyVps(e) == IF e = "vps" THEN "vps" ELSE "prod"

\* self._env = "vps" if _env in {"vps", "paper", "demo", "sandbox", "vts"} else "prod"
ResolveEnv(e) ==
  IF e \in {"vps", "paper", "demo", "sandbox", "vts"} THEN "vps" ELSE "prod"

\* self._base_url
BaseUrl(e) ==
  IF e = "prod" THEN "https://openapi.koreainvestment.com:9443"
  ELSE "https://openapivts.koreainvestment.com:29443"

\* token_path in _get_access_token
TokenPath(e) == IF e = "prod" THEN "/oauth2/token" ELSE "/oauth2/tokenP"

TrCodes == [k \in {"inquire-balance", "order-buy", "order-sell", "inquire-daily-ccld"} |->
  CASE k = "inquire-balance" -> "8434R"
    [] k = "order-buy" -> "0012U"
    [] k = "order-sell" -> "0011U"
    [] k = "inquire-daily-ccld" -> "0081R"]

\* HantuStock._tr
tr(e, key) == (IF e = "prod" THEN "TTTC" ELSE "VTTC") \o TrCodes[key]

\* ------------------------------------------------------ the retry loops

NextBackoffUncapped(b) == b * 2

\* backoff = min(backoff * 2, 5.0)
NextBackoff(b) == Min(b * 2, BackoffCap)

ThrottleCodes == {"EGW00201", "EGW00123"}

IsRetryableOnlyFirstCode(data) ==
  Get(data, "rt_cd", None) # "0" /\ Get(data, "msg_cd", None) \in {"EGW00201"}

\* if data.get("rt_cd") != "0": if data.get("msg_cd") in {"EGW00201", "EGW00123"}
IsRetryable(data) ==
  Get(data, "rt_cd", None) # "0" /\ Get(data, "msg_cd", None) \in ThrottleCodes

\* return {}, {"rt_cd": "1", "msg1": "request failed after retries"}
EmptyHeaders == [k \in {} |-> ""]

FailurePayload == [rt_cd |-> "1", msg1 |-> "request failed after retries"]

\* The exceptions one HTTP attempt may end in.
Exceptions == {"ConnectTimeout", "ReadTimeout", "Exception"}

\* What the token endpoint may answer: a token, or an error body without one.
TokenData ==
  {[access_token |-> "TOKEN"], [error_code |-> "EGW00133"]}

\* ------------------------------------------------------------- values

\* int(s) and float(s) of the strings the server's rows carry; a string
\* that is no number raises ValueError.
Numerals == [s \in {"0", "3", "7", "1000000"} |->
  CASE s = "0" -> 0 [] s = "3" -> 3 [] s = "7" -> 7 [] s = "1000000" -> 1000000]

\* int(r.get(key, 0))
IntField(r, key) == IF key \in DOMAIN r THEN Numerals[r[key]] ELSE 0

\* tkr.startswith("J"), on the tickers of the rows below
StartsWithJ(t) == t \in {"J5700123"}

Held == [pdno |-> "005930", hldg_qty |-> "7"]
SoldOut == [pdno |-> "000660", hldg_qty |-> "0"]
Warrant == [pdno |-> "J5700123", hldg_qty |-> "3"]

\* The output1 lists one page of the balance may carry.
BalanceOutput1s == {<<>>, <<Held>>, <<SoldOut, Warrant>>}

Filled == [pdno |-> "005930", tot_ccld_qty |-> "7"]
Unfilled == [pdno |-> "000660", tot_ccld_qty |-> "0"]
NoQty == [pdno |-> "035720"]

\* The output1 lists one page of the order history may carry.
HistoryOutput1s == {<<>>, <<Filled>>, <<Unfilled, Filled>>, <<NoQty>>}

\* The continuation keys (ctx_area_fk100, ctx_area_nk100) of a response.
ContinuationKeys == {<<"", "">>, <<"FK1", "NK1">>}

\* The tr_cont header of a page: "F" and "M" announce a further page.
TrConts(pageNo) == IF pageNo < MaxPages THEN {"F", "M", "D"} ELSE {"D"}

\* An error body of the brokerage: rt_cd, msg_cd and msg1, no output.
ErrorBody == [rt_cd |-> "1", msg_cd |-> "APBK0013", msg1 |-> "error"]

\* A response of a paginated endpoint that is no throttling response: a
\* success with its continuation keys and rows, or an error body.
PageResponses(output1s, pageNo) ==
  {[kind |-> "resp",
    hd |-> [tr_cont |-> c],
    data |-> [rt_cd |-> "0", msg_cd |-> "MCA00000",
              ctx_area_fk100 |-> k[1], ctx_area_nk100 |-> k[2], output1 |-> o]] :
     c \in TrConts(pageNo), k \in ContinuationKeys, o \in output1s}
   \cup {[kind |-> "resp", hd |-> [tr_cont |-> c], data |-> ErrorBody] :
           c \in TrConts(pageNo)}

\* The gateway's throttling responses.
ThrottleResponses ==
  {[kind |-> "resp", hd |-> EmptyHeaders,
    data |-> [rt_cd |-> "1", msg_cd |-> m, msg1 |-> "throttled"]] : m \in ThrottleCodes}

Failures ==
  ThrottleResponses \cup {[kind |-> "exc", exc |-> x] : x \in Exceptions}

\* The output2 of a balance response as get_holding_cash reads it.
Output2s ==
  {<<>>, <<[prvs_rcdl_excc_amt |-> "1000000"]>>, <<[prvs_rcdl_excc_amt |-> "N/A"]>>,
   <<[tot_evlu_amt |-> "0"]>>}

CashResponses ==
  {[kind |-> "resp", hd |-> [tr_cont |-> "D"],
    data |-> [rt_cd |-> "0", msg_cd |-> "MCA00000", output2 |-> o]] : o \in Output2s}
   \cup {[kind |-> "resp", hd |-> [tr_cont |-> "D"], data |-> ErrorBody]}

\* The answers to an order: accepted with its order number, accepted without
\* one, or refused.
OrderResponses ==
  {[kind |-> "resp", hd |-> [tr_cont |-> "D"],
    data |-> [rt_cd |-> "0", msg_cd |-> "APBK0013", output |-> o]] :
     o \in {[ODNO |-> "0000117057"], [KRX_FWDG_ORD_ORGNO |-> "06010"]}}
   \cup {[kind |-> "resp", hd |-> [tr_cont |-> "D"], data |-> ErrorBody]}

VARIABLES
  env,           \* self._env, "none" while there is no instance
  base_url,      \* self._base_url
  access_token,  \* self._access_token
  op,            \* the method in progress, or the last one finished
  args,          \* its arguments
  pc,            \* "idle", "send" (before an HTTP attempt), "sleep" (before a sleep)
  loop,          \* the retry loop in progress: "none", "token", "request"
  attempt,       \* HTTP attempts made by the current call of the loop
  backoff,       \* the loop's backoff
  delays,        \* the delays the current call has slept, in order
  last,          \* the outcome of the latest attempt, while it is handled
  req,           \* the request of the current call
  fk100, nk100,  \* locals of the paginating loops
  out,
  sent,          \* the requests the method has made, one per call of a loop
  pages,         \* what _request returned to the method, call by call
  ret,           \* the outcome of the last finished method
  files,         \* the files under ./averaging_history: path -> mtime, content
  now            \* the clock, in seconds

vars == <<env, base_url, access_token, op, args, pc, loop, attempt, backoff,
          delays, last, req, fk100, nk100, out, sent, pages, ret, files, now>>

instance == <<env, base_url, access_token>>
locals == <<fk100, nk100, out>>
disk == <<files, now>>
retry == <<loop, attempt, backoff, delays, last, req>>

NoReq == [url |-> None]
NoRet == [kind |-> "none"]
NoLast == [kind |-> "none"]

Init ==
  /\ env = "none" /\ base_url = "none" /\ access_token = "none"
  /\ op = "none" /\ args = <<>>
  /\ pc = "idle" /\ loop = "none" /\ attempt = 0 /\ backoff = InitialBackoff
  /\ delays = <<>> /\ last = NoLast /\ req = NoReq
  /\ fk100 = "" /\ nk100 = "" /\ out = <<>>
  /\ sent = <<>> /\ pages = <<>>
  /\ ret = NoRet
  /\ files = <<>> /\ now = 0

\* The entry of a retry loop: backoff = 0.5, for attempt in range(6).
EnterLoop(which, r) ==
  /\ loop' = which /\ attempt' = 0 /\ backoff' = InitialBackoff
  /\ delays' = <<>> /\ last' = NoLast /\ req' = r /\ pc' = "send"
  /\ sent' = Append(IF pc = "idle" THEN <<>> ELSE sent, r)

\* The method returns or raises: its frames and those of the loop are gone.
Finish(result) ==
  /\ ret' = result /\ pc' = "idle"
  /\ loop' = "none" /\ attempt' = 0 /\ backoff' = InitialBackoff
  /\ delays' = <<>> /\ last' = NoLast /\ req' = NoReq
  /\ fk100' = "" /\ nk100' = "" /\ out' = <<>>

Raise(exc) == [kind |-> "raise", exc |-> exc]
Value(v) == [kind |-> "value", val |-> v]

\* The caller has used the outcome of the method: print(...) in __main__.
discard ==
  /\ pc = "idle" /\ op # "none"
  /\ op' = "none" /\ args' = <<>> /\ ret' = NoRet
  /\ sent' = <<>> /\ pages' = <<>>
  /\ UNCHANGED <<instance, retry, locals, pc>>

\* ------------------------------------------------- HantuStock.__init__

\* The request _get_access_token posts.
TokenRequest(e, base) ==
  [url |-> base \o TokenPath(e), method |-> "post", base |-> base,
   path |-> TokenPath(e)]

\* HantuStock(...): __init__ up to the call of _get_access_token.
init(envArg, kisEnv, haveCreds) ==
  /\ pc = "idle" /\ op = "none"
  /\ op' = "init"
  /\ args' = [env |-> envArg, kis_env |-> kisEnv, creds |-> haveCreds]
  /\ pages' = <<>>
  /\ UNCHANGED locals
  /\ LET e == StripLower(RawEnv(envArg, kisEnv)) IN
       IF e \notin AcceptedEnvs \/ ~haveCreds
       THEN /\ ret' = Raise("ValueError")
            /\ sent' = <<>>
            /\ env' = "none" /\ base_url' = "none" /\ access_token' = "none"
            /\ pc' = "idle"
            /\ UNCHANGED retry
       ELSE /\ env' = ResolveEnv(e)
            /\ base_url' = BaseUrl(ResolveEnv(e))
            /\ access_token' = "none"
            /\ ret' = NoRet
            /\ EnterLoop("token", TokenRequest(ResolveEnv(e), BaseUrl(ResolveEnv(e))))

\* One iteration of the loop of _get_access_token, up to the return or the sleep.
token_attempt(outcome) ==
  /\ pc = "send" /\ loop = "token"
  /\ UNCHANGED <<env, base_url, op, args, sent, pages>>
  /\ IF outcome.kind = "resp" /\ "access_token" \in DOMAIN outcome.data
     THEN /\ access_token' = outcome.data.access_token
          /\ Finish(Value("instance"))
     ELSE /\ attempt' = attempt + 1
          /\ last' = outcome
          /\ pc' = "sleep"
          /\ UNCHANGED <<access_token, loop, backoff, delays, req, locals, ret>>

TokenGiveUpPayload == Value(FailurePayload)

\* The end of _get_access_token's loop:
\* raise RuntimeError("Failed to get access token after retries")
TokenGiveUp == Raise("RuntimeError")

\* time.sleep(backoff); backoff = min(backoff * 2, 5.0); and the end of the loop
token_sleep ==
  /\ pc = "sleep" /\ loop = "token"
  /\ UNCHANGED <<op, args, sent, pages>>
  /\ IF attempt < RetryBudget
     THEN /\ delays' = Append(delays, backoff)
          /\ backoff' = NextBackoff(backoff)
          /\ last' = NoLast
          /\ pc' = "send"
          /\ UNCHANGED <<instance, loop, attempt, req, locals, ret>>
     ELSE /\ Finish(TokenGiveUp)
          /\ env' = "none" /\ base_url' = "none" /\ access_token' = "none"

TokenOutcomes ==
  {[kind |-> "resp", data |-> d] : d \in TokenData}
    \cup {[kind |-> "exc", exc |-> x] : x \in Exceptions}

\* ---------------------------------------------------------------- balance

\* self._header(tr_id) and the params of _inquire_balance_raw
BalanceRequest(e, base, token, fk, nk, hdr_tr_cont) ==
  [url |-> base \o "/uapi/domestic-stock/v1/trading/inquire-balance",
   base |-> base, path |-> "/uapi/domestic-stock/v1/trading/inquire-balance",
   method |-> "get", tr_id |-> tr(e, "inquire-balance"),
   authorization |-> token, tr_cont |-> hdr_tr_cont,
   CTX_AREA_FK100 |-> fk, CTX_AREA_NK100 |-> nk]

StartMethod(name, a) ==
  /\ pc = "idle" /\ op = "none" /\ env # "none" /\ access_token # "none"
  /\ op' = name /\ args' = a
  /\ pages' = <<>>
  /\ UNCHANGED instance

\* The method's first call of _request.
FirstRequest(r) ==
  /\ EnterLoop("request", r)
  /\ fk100' = "" /\ nk100' = "" /\ out' = <<>>
  /\ ret' = NoRet

\* get_holding_cash(): _inquire_balance_raw(account_info=True), up to its request
get_holding_cash ==
  /\ StartMethod("cash", <<>>)
  /\ FirstRequest(BalanceRequest(env, base_url, access_token, "", "", None))

\* float(info.get("prvs_rcdl_excc_amt", 0)), with except Exception: return 0.0
CashOf(info) ==
  IF "prvs_rcdl_excc_amt" \notin DOMAIN info THEN 0
  ELSE IF info.prvs_rcdl_excc_amt \in DOMAIN Numerals
       THEN Numerals[info.prvs_rcdl_excc_amt] ELSE 0

AccountInfoNoDefault(res) == Get(res, "output2", <<>>)

\* res.get("output2", [{}])
AccountInfo(res) == Get(res, "output2", <<EmptyHeaders>>)

\* return res.get("output2", [{}])[0], and the rest of get_holding_cash
get_holding_cash_return(hd, res) ==
  /\ pages' = Append(pages, [hd |-> hd, data |-> res])
  /\ LET output2 == AccountInfo(res) IN
       Finish(IF Len(output2) = 0 THEN Raise("IndexError")
              ELSE Value(CashOf(output2[1])))
  /\ UNCHANGED <<instance, op, args, sent>>

\* get_holding_stock(ticker, remove_stock_warrant) and
\* get_holding_stock_detail(remove_stock_warrant): up to the first request of
\* _inquire_balance_raw(account_info=False)
get_holding_stock(ticker, remove_stock_warrant) ==
  /\ StartMethod("stock", [ticker |-> ticker, remove_stock_warrant |-> remove_stock_warrant])
  /\ FirstRequest(BalanceRequest(env, base_url, access_token, "", "", None))

get_holding_stock_detail(remove_stock_warrant) ==
  /\ StartMethod("detail", [remove_stock_warrant |-> remove_stock_warrant])
  /\ FirstRequest(BalanceRequest(env, base_url, access_token, "", "", None))

\* _inquire_balance_raw(account_info=False), called for its rows
inquire_balance_raw ==
  /\ StartMethod("balance", <<>>)
  /\ FirstRequest(BalanceRequest(env, base_url, access_token, "", "", None))

RECURSIVE FirstQty(_, _)
\* for r in rows: if r.get("pdno") == ticker: return int(r.get("hldg_qty", 0)); return 0
FirstQty(rows, ticker) ==
  IF rows = <<>> THEN 0
  ELSE IF Get(Head(rows), "pdno", None) = ticker THEN IntField(Head(rows), "hldg_qty")
       ELSE FirstQty(Tail(rows), ticker)

\* if remove_stock_warrant and tkr.startswith("J"): continue
Kept(rows, rsw) ==
  SelectSeq(rows, LAMBDA r : ~(rsw /\ StartsWithJ(Get(r, "pdno", ""))))

\* res[tkr] = int(r.get("hldg_qty", 0)), a later row replacing an earlier one
HoldingDict(rows, rsw) ==
  LET kept == Kept(rows, rsw)
      lastOf(t) == CHOOSE i \in 1..Len(kept) :
                     /\ Get(kept[i], "pdno", "") = t
                     /\ \A j \in (i+1)..Len(kept) : Get(kept[j], "pdno", "") # t
  IN [t \in {Get(kept[i], "pdno", "") : i \in 1..Len(kept)} |->
        IntField(kept[lastOf(t)], "hldg_qty")]

\* the rows get_holding_stock_detail returns
HoldingDetail(rows, rsw) ==
  LET kept == SelectSeq(Kept(rows, rsw), LAMBDA r : IntField(r, "hldg_qty") # 0)
  IN [i \in 1..Len(kept) |->
        [pdno |-> Get(kept[i], "pdno", ""), hldg_qty |-> IntField(kept[i], "hldg_qty")]]

\* what the caller of _inquire_balance_raw makes of its rows
BalanceResult(rows) ==
  IF op = "balance" THEN rows
  ELSE IF op = "detail" THEN HoldingDetail(rows, args.remove_stock_warrant)
  ELSE IF args.ticker # None THEN FirstQty(rows, args.ticker)
  ELSE HoldingDict(rows, args.remove_stock_warrant)

ContinuesOnlyF(hd) == Get(hd, "tr_cont", None) \in {"F"}

\* cont = hd.get("tr_cont") in {"F", "M"}
Continues(hd) == Get(hd, "tr_cont", None) \in {"F", "M"}

\* out += res.get("output1", [])
AppendRows(rows, res) == rows \o Get(res, "output1", <<>>)

\* fk100 = res.get("ctx_area_fk100", ""); nk100 = res.get("ctx_area_nk100", "")
NextKeys(res) == <<Get(res, "ctx_area_fk100", ""), Get(res, "ctx_area_nk100", "")>>

\* The body of the loop of _inquire_balance_raw after _request has returned,
\* and, when the loop ends, the rest of the method that called it.
inquire_balance_page(hd, res) ==
  /\ pages' = Append(pages, [hd |-> hd, data |-> res])
  /\ LET keys == NextKeys(res)
         rows == AppendRows(out, res)
     IN IF Continues(hd)
        THEN /\ fk100' = keys[1] /\ nk100' = keys[2] /\ out' = rows
             /\ EnterLoop("request",
                  BalanceRequest(env, base_url, access_token, keys[1], keys[2], "N"))
             /\ UNCHANGED ret
        ELSE /\ Finish(Value(BalanceResult(rows)))
             /\ UNCHANGED sent
  /\ UNCHANGED <<instance, op, args>>

\* ----------------------------------------------------------------- orders

\* A price or quantity argument: a str or an int.
StrArg(s) == [t |-> "str", v |-> s]
IntArg(n) == [t |-> "int", v |-> n]

\* str(x)
PyStr(x) == IF x.t = "str" THEN x.v ELSE ToString(x.v)

\* price in {"market", "", 0}
IsMarket(price) == price \in {StrArg("market"), StrArg(""), IntArg(0)}

\* str(quantity_scale).upper(), on the scales tried
Upper(s) ==
  CASE s = "cash" -> "CASH"
    [] s = "Stock" -> "STOCK"
    [] OTHER -> s

\* int(x) of a number given in tenths: the fraction is cut off
Truncate(tenths, divisor) ==
  IF tenths >= 0 THEN tenths \div divisor ELSE -((-tenths) \div divisor)

OrderQtyCeiling(scale, quantity10, px) ==
  IF scale = "CASH" THEN (quantity10 + 10 * px - 1) \div (10 * px)
  ELSE (quantity10 + 9) \div 10

\* qty = int(float(quantity) / float(px)) for CASH, int(quantity) for STOCK;
\* the quantity is given in tenths
OrderQty(scale, quantity10, px) ==
  IF scale = "CASH" THEN Truncate(quantity10, 10 * px)
  ELSE Truncate(quantity10, 10)

OrderRequest(e, base, token, key, ticker, ord_dvsn, qty, ord_unpr) ==
  [url |-> base \o "/uapi/domestic-stock/v1/trading/order-cash",
   base |-> base, path |-> "/uapi/domestic-stock/v1/trading/order-cash",
   method |-> "post", tr_id |-> tr(e, key), authorization |-> token,
   PDNO |-> ticker, ORD_DVSN |-> ord_dvsn, ORD_QTY |-> ToString(qty),
   ORD_UNPR |-> ord_unpr]

\* ord_dvsn, ord_unpr and qty of bid and ask, as [ORD_DVSN, ORD_UNPR, qty]
OrderTerms(price, quantity10, quantity_scale, close) ==
  LET market == IsMarket(price)
      px == IF market THEN close.close ELSE price.v
  IN [ORD_DVSN |-> IF market THEN "01" ELSE "00",
      ORD_UNPR |-> IF market THEN "0" ELSE PyStr(price),
      qty |-> OrderQty(Upper(quantity_scale), quantity10, px)]

\* bid and ask up to the request: side is "bid" or "ask"; close is the
\* latest close get_past_data gives, if FinanceDataReader is installed
order(side, ticker, price, quantity10, quantity_scale, close) ==
  /\ StartMethod(side, [ticker |-> ticker, price |-> price, quantity10 |-> quantity10,
                        quantity_scale |-> quantity_scale, close |-> close])
  /\ LET scale == Upper(quantity_scale)
         terms == OrderTerms(price, quantity10, quantity_scale, close)
     IN IF IsMarket(price) /\ scale = "CASH" /\ ~close.fdr
        THEN /\ Finish(Raise("ImportError")) /\ sent' = <<>>
        ELSE IF scale \notin {"CASH", "STOCK"}
        THEN /\ Finish(Value(<<None, 0>>)) /\ sent' = <<>>
        ELSE FirstRequest(
               OrderRequest(env, base_url, access_token,
                            IF side = "bid" THEN "order-buy" ELSE "order-sell",
                            ticker, terms.ORD_DVSN, terms.qty, terms.ORD_UNPR))

\* the rest of bid and ask after _request has returned
order_return(hd, data) ==
  /\ pages' = Append(pages, [hd |-> hd, data |-> data])
  /\ LET odno == Get(Get(data, "output", EmptyHeaders), "ODNO", None)
         qty == OrderTerms(args.price, args.quantity10, args.quantity_scale, args.close).qty
     IN Finish(Value(
          IF Get(data, "rt_cd", None) # "0" THEN <<None, 0>>
          ELSE IF op = "ask" /\ odno = None THEN <<None, 0>>
          ELSE <<odno, qty>>))
  /\ UNCHANGED <<instance, op, args, sent>>

\* ---------------------------------------------------------------- history

HistoryRequest(e, base, token, fk, nk, hdr_tr_cont) ==
  [url |-> base \o "/uapi/domestic-stock/v1/trading/inquire-daily-ccld",
   base |-> base, path |-> "/uapi/domestic-stock/v1/trading/inquire-daily-ccld",
   method |-> "get", tr_id |-> tr(e, "inquire-daily-ccld"),
   authorization |-> token, tr_cont |-> hdr_tr_cont,
   CTX_AREA_FK100 |-> fk, CTX_AREA_NK100 |-> nk]

\* get_transaction_history(...) up to its first request
get_transaction_history ==
  /\ StartMethod("history", <<>>)
  /\ FirstRequest(HistoryRequest(env, base_url, access_token, "", "", None))

\* the result list: the rows with int(r.get("tot_ccld_qty", 0)) != 0
Executed(rows) ==
  LET kept == SelectSeq(rows, LAMBDA r : IntField(r, "tot_ccld_qty") # 0)
  IN [i \in 1..Len(kept) |->
        [pdno |-> Get(kept[i], "pdno", ""), tot_ccld_qty |-> IntField(kept[i], "tot_ccld_qty")]]

StopsNever(res) == FALSE

\* if res.get("rt_cd") != "0": break
Stops(res) == Get(res, "rt_cd", None) # "0"

\* The body of the loop of get_transaction_history after _request has
\* returned, and, when the loop ends, the rest of the method.
transaction_history_page(hd, res) ==
  /\ pages' = Append(pages, [hd |-> hd, data |-> res])
  /\ IF Stops(res)
     THEN /\ Finish(Value(Executed(out)))
          /\ UNCHANGED sent
     ELSE LET keys == NextKeys(res)
              rows == AppendRows(out, res)
          IN IF Continues(hd)
             THEN /\ fk100' = keys[1] /\ nk100' = keys[2] /\ out' = rows
                  /\ EnterLoop("request",
                       HistoryRequest(env, base_url, access_token, keys[1], keys[2], "N"))
                  /\ UNCHANGED ret
             ELSE /\ Finish(Value(Executed(rows)))
                  /\ UNCHANGED sent
  /\ UNCHANGED <<instance, op, args>>

\* ------------------------------------------------- HantuStock._request

\* return r_headers, data: the caller goes on with what _request returned
Return(hd, data) ==
  CASE op = "cash" -> get_holding_cash_return(hd, data)
    [] op \in {"balance", "stock", "detail"} -> inquire_balance_page(hd, data)
    [] op \in {"bid", "ask"} -> order_return(hd, data)
    [] op = "history" -> transaction_history_page(hd, data)

\* One iteration of the loop of _request, up to the return, the continue
\* or the sleep.  The outcome is a response (its headers and JSON body) or
\* an exception of requests.get/post or resp.json().
request_attempt(outcome) ==
  /\ pc = "send" /\ loop = "request"
  /\ IF outcome.kind = "resp" /\ ~IsRetryable(outcome.data)
     THEN Return(outcome.hd, outcome.data)
     ELSE /\ attempt' = attempt + 1
          /\ last' = outcome
          /\ pc' = "sleep"
          /\ UNCHANGED <<instance, op, args, loop, backoff, delays, req, locals,
                         sent, pages, ret>>

\* time.sleep(backoff); backoff = min(backoff * 2, 5.0); after the last
\* iteration: return {}, {"rt_cd": "1", "msg1": "request failed after retries"}
request_sleep ==
  /\ pc = "sleep" /\ loop = "request"
  /\ IF attempt < RetryBudget
     THEN /\ delays' = Append(delays, backoff)
          /\ backoff' = NextBackoff(backoff)
          /\ last' = NoLast
          /\ pc' = "send"
          /\ UNCHANGED <<instance, op, args, loop, attempt, req, locals, sent,
                         pages, ret>>
     ELSE Return(EmptyHeaders, FailurePayload)

\* ------------------------------------------------------------------ next

Tickers == {None, "005930"}

Prices == {StrArg("market"), StrArg(""), IntArg(0), IntArg(3), IntArg(7)}

\* quantities, in tenths: 1, 2.5, 10
Quantities == {10, 25, 100}

Scales == {"CASH", "cash", "STOCK", "LOT"}

\* FinanceDataReader: not installed, or the latest close it gives
Closes == {[fdr |-> FALSE], [fdr |-> TRUE, close |-> 4]}

Next ==
  \/ /\ UNCHANGED disk
     /\ pc = "idle" /\ op = "none"
     /\ \E a \in EnvArgs, k \in KisEnvs, c \in BOOLEAN :
          (a \notin {None, ""} => k = None) /\ init(a, k, c)
  \/ /\ UNCHANGED disk
     /\ pc = "send" /\ loop = "token"
     /\ \E o \in TokenOutcomes : token_attempt(o)
  \/ token_sleep /\ UNCHANGED disk
  \/ /\ UNCHANGED disk
     /\ pc = "send" /\ op = "cash"
     /\ \E o \in Failures \cup CashResponses : request_attempt(o)
  \/ /\ UNCHANGED disk
     /\ pc = "send" /\ op \in {"balance", "stock", "detail"}
     /\ \E o \in Failures \cup PageResponses(BalanceOutput1s, Len(pages) + 1) :
          request_attempt(o)
  \/ /\ UNCHANGED disk
     /\ pc = "send" /\ op = "history"
     /\ \E o \in Failures \cup PageResponses(HistoryOutput1s, Len(pages) + 1) :
          request_attempt(o)
  \/ /\ UNCHANGED disk
     /\ pc = "send" /\ op \in {"bid", "ask"}
     /\ \E o \in Failures \cup OrderResponses : request_attempt(o)
  \/ request_sleep /\ UNCHANGED disk
  \/ get_holding_cash /\ UNCHANGED disk
  \/ /\ UNCHANGED disk
     /\ pc = "idle" /\ op = "none" /\ env # "none"
     /\ \E t \in Tickers, w \in BOOLEAN : get_holding_stock(t, w)
  \/ /\ UNCHANGED disk
     /\ pc = "idle" /\ op = "none" /\ env # "none"
     /\ \E w \in BOOLEAN : get_holding_stock_detail(w)
  \/ /\ UNCHANGED disk
     /\ pc = "idle" /\ op = "none" /\ env # "none"
     /\ \E side \in {"bid", "ask"}, p \in Prices, q \in Quantities, s \in Scales,
           c \in Closes :
          (~c.fdr => IsMarket(p) /\ Upper(s) = "CASH")
            /\ order(side, "005930", p, q, s, c)
  \/ inquire_balance_raw /\ UNCHANGED disk
  \/ get_transaction_history /\ UNCHANGED disk
  \/ discard /\ UNCHANGED disk

Spec == Init /\ [][Next]_vars

\* The program is one thread that keeps running, and every HTTP attempt ends
\* (timeout=30): a step that can be taken is taken.
FairSpec == Spec /\ WF_vars(Next)

\* ================================================================ claims

Last(q) == q[Len(q)]

\* The failure payload and the throttling test as the claims state them.
GenericFailure(page) ==
  /\ DOMAIN page.hd = {}
  /\ page.data = [rt_cd |-> "1", msg1 |-> "request failed after retries"]

Throttled(data) ==
  /\ "rt_cd" \notin DOMAIN data \/ data.rt_cd # "0"
  /\ "msg_cd" \in DOMAIN data
  /\ data.msg_cd \in {"EGW00201", "EGW00123"}

\* The step in which a retry loop ends after its last failed attempt.
GivesUp == pc = "sleep" /\ attempt = 6

\* A call of _request returns to its caller in this step.
Returns == Len(pages') = Len(pages) + 1

\* C1: in _get_access_token and in _request the delay slept after the k-th
\* failed attempt of a call is min(0.5 * 2^(k-1), 5.0) s: the delays of a call
\* are a prefix of 0.5, 1, 2, 4, 5, 5, none below 0.5 s or above 5.0 s.
\* (pc = "sleep": the attempt-th attempt has failed and backoff is slept next.)
C1_BackoffSchedule ==
  /\ pc = "sleep" =>
       /\ attempt \in 1..6
       /\ backoff = Min(5 * 2^(attempt - 1), 50)
       /\ backoff >= 5 /\ backoff <= 50
       /\ Append(delays, backoff) = SubSeq(<<5, 10, 20, 40, 50, 50>>, 1, attempt)
  /\ delays = SubSeq(<<5, 10, 20, 40, 50, 50>>, 1, Len(delays))

C1_Witness ==
  /\ pc = "sleep" /\ loop = "request" /\ attempt = 6
  /\ delays = <<5, 10, 20, 40, 50>> /\ backoff = 50

\* C2: every call of _request and of _get_access_token makes at most 6 HTTP
\* attempts, whatever the outcome of each, and ends: the n-th call of a
\* method does not stay in progress for ever.
C2_AtMostSixAttempts ==
  /\ [](attempt <= 6 /\ (pc = "send" => attempt < 6))
  /\ \A n \in 1..(MaxPages + 1) :
       (pc # "idle" /\ Len(sent) = n) ~> (pc = "idle" \/ Len(sent) # n)

C2_Witness == pc = "sleep" /\ attempt = 6 /\ loop = "token"

\* C3 as stated: when all 6 attempts have failed, the call hands its caller a
\* generic failure payload and raises nothing, in the token fetch as in
\* _request.
C3_Original ==
  [][GivesUp =>
       /\ ret'.kind # "raise"
       /\ loop = "request" => Returns /\ GenericFailure(Last(pages'))]_vars

\* C3 amended: when all 6 attempts have failed, _request returns empty
\* headers and {"rt_cd": "1", "msg1": "request failed after retries"} and
\* raises nothing, while _get_access_token raises RuntimeError and no
\* instance is constructed.
C3_GiveUp ==
  [][GivesUp =>
       IF loop = "token"
       THEN ret' = [kind |-> "raise", exc |-> "RuntimeError"] /\ env' = "none"
       ELSE /\ Returns /\ GenericFailure(Last(pages'))
            /\ ret'.kind # "raise"]_vars

C3_Witness ==
  /\ op = "init" /\ pc = "idle" /\ ret = [kind |-> "raise", exc |-> "RuntimeError"]
  /\ args.env = "prod" /\ args.creds

\* C4 as stated: what _request returns is a response whose rt_cd is "0" or
\* the generic failure payload.
C4_Original ==
  \A i \in 1..Len(pages) :
    \/ "rt_cd" \in DOMAIN pages[i].data /\ pages[i].data.rt_cd = "0"
    \/ GenericFailure(pages[i])

\* C4 amended: _request retries exceptions and throttling responses only: it
\* returns a response whose rt_cd is "0", or at once a non-success response
\* whose msg_cd is no throttling code, or, only after its 6 attempts are used
\* up, the generic failure payload.
C4_ReturnsOrGivesUp ==
  [][Returns =>
       IF GenericFailure(Last(pages'))
       THEN GivesUp /\ loop = "request"
       ELSE /\ pc = "send" /\ attempt < 6
            /\ ~Throttled(Last(pages').data)]_vars

C4_Witness ==
  /\ op = "bid" /\ pc = "idle" /\ Len(pages) = 1
  /\ pages[1].data.rt_cd = "1" /\ ~GenericFailure(pages[1])
  /\ ret = [kind |-> "value", val |-> <<None, 0>>]

\* C5: a throttling response (rt_cd not "0", msg_cd EGW00201 or EGW00123) is
\* never returned by _request: it is followed by one backoff sleep and then
\* by a new attempt or, after the 6th attempt, by the generic failure payload.
C5_ThrottledNeverReturned ==
  /\ [](\A i \in 1..Len(pages) : ~Throttled(pages[i].data))
  /\ [][/\ (pc = "send" /\ loop = "request" /\ last'.kind = "resp" /\ Throttled(last'.data))
             => pc' = "sleep" /\ pages' = pages /\ attempt' = attempt + 1
        /\ (pc = "sleep" /\ loop = "request" /\ last.kind = "resp" /\ Throttled(last.data))
             => \/ /\ attempt < 6 /\ pc' = "send" /\ pages' = pages
                   /\ delays' = Append(delays, backoff) /\ attempt' = attempt
                \/ /\ attempt = 6 /\ Returns /\ GenericFailure(Last(pages'))]_vars

C5_Witness ==
  /\ pc = "sleep" /\ loop = "request" /\ attempt = 6
  /\ last.kind = "resp" /\ last.data.msg_cd = "EGW00123"

\* What a response carries under a key, "" when it carries nothing.
KeyOf(data, k) == IF k \in DOMAIN data THEN data[k] ELSE ""

Announces(page) == "tr_cont" \in DOMAIN page.hd /\ page.hd.tr_cont \in {"F", "M"}

Succeeded(page) == "rt_cd" \in DOMAIN page.data /\ page.data.rt_cd = "0"

RowsOfPage(page) == IF "output1" \in DOMAIN page.data THEN page.data.output1 ELSE <<>>

RECURSIVE RowsOf(_, _)
\* The output1 rows of the first n pages, in page order.
RowsOf(ps, n) == IF n = 0 THEN <<>> ELSE RowsOf(ps, n - 1) \o RowsOfPage(ps[n])

\* Request i of a paginated method carries the continuation keys of response
\* i-1, and the first request carries empty ones.
CarriesKeys ==
  /\ Len(sent) >= 1 => sent[1].CTX_AREA_FK100 = "" /\ sent[1].CTX_AREA_NK100 = ""
  /\ \A i \in 2..Len(sent) :
       /\ i - 1 <= Len(pages)
       /\ sent[i].CTX_AREA_FK100 = KeyOf(pages[i - 1].data, "ctx_area_fk100")
       /\ sent[i].CTX_AREA_NK100 = KeyOf(pages[i - 1].data, "ctx_area_nk100")

\* C6: _inquire_balance_raw(account_info=False) pages by continuation keys:
\* the first request carries empty CTX_AREA_FK100/NK100, every later one the
\* keys of the response before it; a further page is requested if and only
\* if the response before it has tr_cont "F" or "M"; the list returned is the
\* output1 rows of every page requested, in page order.
C6_BalancePagination ==
  op \in {"balance", "stock", "detail"} =>
    /\ CarriesKeys
    /\ \A i \in 1..Len(sent) :
         sent[i].path = "/uapi/domestic-stock/v1/trading/inquire-balance"
    /\ \A i \in 1..Len(pages) : (i < Len(sent)) <=> Announces(pages[i])
    /\ pc # "idle" => Len(sent) = Len(pages) + 1 /\ out = RowsOf(pages, Len(pages))
    /\ pc = "idle" => Len(sent) = Len(pages)
    /\ (pc = "idle" /\ op = "balance") =>
         ret = [kind |-> "value", val |-> RowsOf(pages, Len(pages))]

C6_Witness ==
  /\ op = "balance" /\ pc = "idle" /\ Len(pages) = 2
  /\ pages[1].hd.tr_cont = "M"
  /\ sent[2].CTX_AREA_FK100 = "FK1" /\ sent[2].CTX_AREA_NK100 = "NK1"
  /\ ret.val = <<[pdno |-> "005930", hldg_qty |-> "7"],
                 [pdno |-> "000660", hldg_qty |-> "0"],
                 [pdno |-> "J5700123", hldg_qty |-> "3"]>>

\* The rows of an order history that were executed, as the method returns them.
ExecutedRows(rows) ==
  LET idx == {i \in 1..Len(rows) :
                "tot_ccld_qty" \in DOMAIN rows[i] /\ rows[i].tot_ccld_qty # "0"}
      nth[k \in 0..Len(rows)] ==
        IF k = 0 THEN 0
        ELSE CHOOSE i \in idx : Cardinality({j \in idx : j <= i}) = k
  IN [k \in 1..Cardinality(idx) |->
        [pdno |-> rows[nth[k]].pdno, tot_ccld_qty |-> Numerals[rows[nth[k]].tot_ccld_qty]]]

\* C7: get_transaction_history pages by continuation keys while tr_cont is
\* "F" or "M"; once a page's response has rt_cd other than "0" it requests
\* no further page; it returns, in order, the rows of the pages received
\* before that point whose tot_ccld_qty is not 0.
C7_HistoryStopsAtFailure ==
  op = "history" =>
    /\ CarriesKeys
    /\ \A i \in 1..Len(pages) :
         (i < Len(sent)) <=> (Succeeded(pages[i]) /\ Announces(pages[i]))
    /\ \A i \in 1..Len(pages) : ~Succeeded(pages[i]) => i = Len(pages) /\ pc = "idle"
    /\ pc = "idle" =>
         LET n == IF Succeeded(Last(pages)) THEN Len(pages) ELSE Len(pages) - 1
         IN ret = [kind |-> "value", val |-> ExecutedRows(RowsOf(pages, n))]

C7_Witness ==
  /\ op = "history" /\ pc = "idle" /\ Len(pages) = 2
  /\ pages[1].data.output1 = <<[pdno |-> "000660", tot_ccld_qty |-> "0"],
                               [pdno |-> "005930", tot_ccld_qty |-> "7"]>>
  /\ GenericFailure(pages[2])
  /\ ret.val = <<[pdno |-> "005930", tot_ccld_qty |-> 7]>>

\* The default an account query degrades to.
IsDefault(result) ==
  /\ result.kind = "value"
  /\ CASE op = "cash" -> result.val = 0
       [] op = "detail" -> result.val = <<>>
       [] op = "stock" /\ args.ticker = None -> DOMAIN result.val = {}
       [] op = "stock" /\ args.ticker # None -> result.val = 0

AccountQueryDone == pc = "idle" /\ op \in {"cash", "stock", "detail"}

RECURSIVE SucceededRows(_, _)
SucceededRows(ps, n) ==
  IF n = 0 THEN <<>>
  ELSE SucceededRows(ps, n - 1) \o (IF Succeeded(ps[n]) THEN RowsOfPage(ps[n]) ELSE <<>>)

C9_OrderMapping ==
  (op \in {"bid", "ask"} /\ Len(sent) >= 1) =>
    LET r == sent[1]
        market == args.price \in {[t |-> "str", v |-> "market"], [t |-> "str", v |-> ""],
                                  [t |-> "int", v |-> 0]}
        price == IF market THEN args.close.close ELSE args.price.v
        cash == args.quantity_scale \in {"CASH", "cash"}
        unit == IF cash THEN 10 * price ELSE 10
    IN /\ Len(sent) = 1
       /\ r.method = "post" /\ r.path = "/uapi/domestic-stock/v1/trading/order-cash"
       /\ r.tr_id = (IF env = "prod" THEN "TTTC" ELSE "VTTC")
                      \o (IF op = "bid" THEN "0012U" ELSE "0011U")
       /\ r.PDNO = args.ticker
       /\ market => r.ORD_DVSN = "01" /\ r.ORD_UNPR = "0"
       /\ ~market => /\ r.ORD_DVSN = "00"
                     /\ r.ORD_UNPR = (CASE args.price.v = 3 -> "3" [] args.price.v = 7 -> "7")
       /\ args.quantity_scale \in {"CASH", "cash", "STOCK"}
       /\ \E n \in 0..100 :
            /\ r.ORD_QTY = ToString(n)
            /\ unit * n <= args.quantity10 /\ args.quantity10 < unit * (n + 1)

C9_Witness ==
  /\ op = "bid" /\ pc = "send" /\ env = "vps"
  /\ args.price = [t |-> "int", v |-> 3] /\ args.quantity_scale = "CASH"
  /\ args.quantity10 = 100
  /\ sent[1].ORD_QTY = "3" /\ sent[1].ORD_UNPR = "3" /\ sent[1].tr_id = "VTTC0012U"

\* The environment an env argument and a KIS_ENV value name, "" if none.
NamedEnv(a) ==
  LET given == IF a.env \in {None, ""}
               THEN (IF a.kis_env = None THEN "prod" ELSE a.kis_env) ELSE a.env
  IN CASE given \in {"prod", " PROD"} -> "prod"
       [] given \in {"vps", "Paper", "demo", "sandbox", "vts"} -> "vps"
       [] OTHER -> ""

ConsistentWith(e, r) ==
  /\ e = "prod" =>
       /\ r.base = "https://openapi.koreainvestment.com:9443"
       /\ "tr_id" \notin DOMAIN r => r.path = "/oauth2/token"
       /\ "tr_id" \in DOMAIN r =>
            r.tr_id \in {"TTTC8434R", "TTTC0012U", "TTTC0011U", "TTTC0081R"}
  /\ e = "vps" =>
       /\ r.base = "https://openapivts.koreainvestment.com:29443"
       /\ "tr_id" \notin DOMAIN r => r.path = "/oauth2/tokenP"
       /\ "tr_id" \in DOMAIN r =>
            r.tr_id \in {"VTTC8434R", "VTTC0012U", "VTTC0011U", "VTTC0081R"}
  /\ r.url = r.base \o r.path

\* C10: the environment of an instance is fixed at construction to prod or
\* vps (paper, demo, sandbox and vts resolve to vps; any other value raises
\* ValueError before any network call), and every request of the instance
\* uses the base URL, the token path and the TR-ID prefix of that environment.
C10_EnvironmentFixed ==
  /\ [](/\ env \in {"none", "prod", "vps"}
        /\ env = "prod" => base_url = "https://openapi.koreainvestment.com:9443"
        /\ env = "vps" => base_url = "https://openapivts.koreainvestment.com:29443"
        /\ op # "none" /\ op # "init" => env \in {"prod", "vps"}
        /\ \A i \in 1..Len(sent) :
             ConsistentWith(IF op = "init" THEN NamedEnv(args) ELSE env, sent[i])
        /\ op = "init" =>
             /\ env \in {"none", NamedEnv(args)}
             /\ NamedEnv(args) = "" =>
                  ret = [kind |-> "raise", exc |-> "ValueError"] /\ sent = <<>>
             /\ ret = [kind |-> "value", val |-> "instance"] => env = NamedEnv(args))
  /\ [][op' # "init" => env' = env]_vars

C10_Witness ==
  /\ op = "ask" /\ env = "vps" /\ pc = "send"
  /\ sent[1].tr_id = "VTTC0011U"
  /\ sent[1].url
       = "https://openapivts.koreainvestment.com:29443/uapi/domestic-stock/v1/trading/order-cash"

\* ============================================== the Kakao response formatters
\* src/kakao_report_formatter.py, src/transaction_report.py,
\* src/summary_report.py and src/chatbot_news_community.py.  A formatter is a
\* function of its arguments: a call sets op, args and ret in one step.  A
\* formatted text is the tuple of its parts; an optional dict (None or a dict)
\* is the empty tuple or a tuple of one record.

\* A call of a function that needs no brokerage request.
Call(name, a, result) ==
  /\ pc = "idle" /\ op = "none"
  /\ op' = name /\ args' = a /\ ret' = result
  /\ UNCHANGED <<instance, retry, locals, pc, sent, pages>>

\* brief_summary: the first sentence and ".", cut to 97 characters and "..."
\* when longer than 100; '' for an empty text
Brief(text) ==
  IF text.chars = 0 THEN <<>>
  ELSE IF text.first + 1 > 100 THEN <<"first 97 characters", "...">>
       ELSE <<"first sentence", ".">>

\* _extract_opinion(opinion_text)
extract_opinion(text) ==
  IF text.chars = 0
  THEN [opinion |-> "N/A", target_price |-> "N/A", risk_level |-> "N/A"]
  ELSE [opinion |->
          IF "buy" \in text.words THEN "buy"
          ELSE IF "hold" \in text.words THEN "hold"
          ELSE IF "sell" \in text.words THEN "sell"
          ELSE IF "wait" \in text.words THEN "wait" ELSE "N/A",
        target_price |-> IF text.won = None THEN "N/A" ELSE text.won \o "won",
        risk_level |->
          IF "high risk" \in text.words THEN "high"
          ELSE IF "medium risk" \in text.words THEN "medium"
          ELSE IF "low risk" \in text.words THEN "low" ELSE "N/A"]

NoText == [chars |-> 0, first |-> 0, words |-> {}, won |-> None]

\* _create_detail(report_data)
create_detail(report_data) ==
  [metadata |-> report_data.metadata,
   sections |-> report_data.report.sections,
   raw_data |-> Get(report_data, "raw_data", <<>>)]

\* _create_summary_from_detail(detail)
create_summary_from_detail(detail) ==
  LET basic == Get(detail.raw_data, "basic", <<>>)
      metrics == Get(detail.raw_data, "metrics", <<>>)
  IN  [basic_info |->
         [ticker |-> detail.metadata.ticker,
          company_name |-> detail.metadata.company_name,
          current_price |-> Get(basic, "current_price", "N/A"),
          price_change |-> Get(basic, "price_change", 0),
          price_change_pct |-> Get(basic, "price_change_pct", 0)],
       key_metrics |->
         [per |-> Get(metrics, "per", "N/A"),
          pbr |-> Get(metrics, "pbr", "N/A"),
          roe |-> Get(metrics, "roe", "N/A")],
       investment_opinion |->
         extract_opinion(Get(detail.sections, "investment_opinion", NoText)),
       brief_summary |-> Brief(Get(detail.sections, "summary", NoText))]

\* The button of a card.
WebLink(url) ==
  <<[action |-> "webLink", label |-> "detail report", webLinkUrl |-> url]>>

ListCard(items, url) ==
  [listCard |-> [header |-> [title |-> "key information"], items |-> items,
                 buttons |-> WebLink(url)]]

\* price_change_emoji
ChangeEmoji(change) ==
  IF change > 0 THEN "up" ELSE IF change < 0 THEN "down" ELSE "flat"

\* opinion_emoji: the dict's .get(opinion['opinion'], white)
OpinionEmoji(opinion) ==
  CASE opinion = "buy" -> "green" [] opinion = "hold" -> "yellow"
    [] opinion = "sell" -> "red" [] OTHER -> "white"

\* The default URL appended with the wrong field of the metadata.
DefaultUrlOfName(detail) ==
  "https://example.com/report/" \o detail.metadata.company_name

\* f"https://example.com/report/{detail['metadata']['ticker']}"
DefaultUrl(detail) == "https://example.com/report/" \o detail.metadata.ticker

\* detail_url or <default>: None and "" are false
UrlOr(detail_url, default) ==
  IF detail_url \in {None, ""} THEN default ELSE detail_url

\* _create_kakao_response(summary, detail_url)
create_kakao_response(summary, detail_url) ==
  LET basic == summary.basic_info
      metrics == summary.key_metrics
      opinion == summary.investment_opinion
  IN  [version |-> "2.0",
       template |->
         [outputs |->
            << [basicCard |->
                  [title |-> <<basic.company_name, basic.ticker>>,
                   description |-> summary.brief_summary,
                   thumbnail |->
                     [imageUrl |-> "https://example.com/chart/" \o basic.ticker
                                     \o ".png"],
                   buttons |-> WebLink(detail_url)]],
               ListCard(
                 << [title |-> "price",
                     description |->
                       <<basic.current_price, ChangeEmoji(basic.price_change),
                         basic.price_change, basic.price_change_pct>>],
                    [title |-> "valuation",
                     description |-> <<metrics.per, metrics.pbr, metrics.roe>>],
                    [title |-> "investment opinion",
                     description |->
                       <<OpinionEmoji(opinion.opinion), opinion.opinion,
                         opinion.target_price>>] >>,
                 detail_url) >>]]

\* KakaoReportFormatter.format_for_kakao(report_data, detail_url):
\* report_data['metadata'] of a report without it is a KeyError, and
\* f"{'N/A':,}" of a missing current_price a ValueError.
report_format_for_kakao(report_data, detail_url) ==
  IF "metadata" \notin DOMAIN report_data THEN Raise("KeyError")
  ELSE LET detail == create_detail(report_data)
           summary == create_summary_from_detail(detail)
       IN  IF "current_price" \notin DOMAIN Get(detail.raw_data, "basic", <<>>)
           THEN Raise("ValueError")
           ELSE Value([summary |-> summary, detail |-> detail,
                       kakao_response |->
                         create_kakao_response(
                           summary, UrlOr(detail_url, DefaultUrl(detail)))])

\* _kakao_error_response(reason), and the error branch of
\* TransactionReportGenerator.format_for_kakao
SimpleText(text) == [simpleText |-> [text |-> text]]

\* An error response that says nothing.
KakaoErrorResponseEmpty(reason) ==
  [version |-> "2.0", template |-> [outputs |-> <<>>]]

kakao_error_response(reason) ==
  [version |-> "2.0", template |-> [outputs |-> <<SimpleText(<<"error", reason>>)>>]]

QuickReply(label, message) ==
  [action |-> "message", label |-> label, messageText |-> message]

Block(label, message, blockId) ==
  [action |-> "block", label |-> label, messageText |-> message,
   blockId |-> blockId]

\* report["stock_summary"][:3]
FirstN(q, n) == SubSeq(q, 1, Min(Len(q), n))

\* stock_items of TransactionReportGenerator.format_for_kakao
StockItems(top_stocks) ==
  [i \in 1..Len(top_stocks) |->
     [title |-> top_stocks[i].prdt_name,
      description |->
        <<IF top_stocks[i].profit_rate >= 0 THEN "green" ELSE "red",
          top_stocks[i].profit_rate, top_stocks[i].trades>>]]

NoItems(title) == <<[title |-> title, description |-> "-"]>>

\* TransactionReportGenerator.format_for_kakao(report)
transaction_format_for_kakao(report) ==
  IF "error" \in DOMAIN report THEN kakao_error_response(report.error)
  ELSE
    LET summary == report.summary
        stock_items == StockItems(FirstN(report.stock_summary, 3))
    IN  [version |-> "2.0",
         template |->
           [outputs |->
              << [textCard |->
                    [title |-> <<report.metadata.period_text, "report">>,
                     description |->
                       <<summary.total_trades, summary.total_buy_amount,
                         summary.total_sell_amount,
                         IF summary.net_amount >= 0 THEN "up" ELSE "down",
                         summary.net_amount>>,
                     buttons |->
                       <<[action |-> "webLink", label |-> "details",
                          webLinkUrl |-> "https://example.com/transactions"]>>]],
                 [listCard |->
                    [header |-> [title |-> "TOP 3"],
                     items |-> IF Len(stock_items) > 0 THEN stock_items
                               ELSE NoItems("no transactions")]] >>,
            quickReplies |->
              << QuickReply("1m", "transactions 1m"),
                 QuickReply("3m", "transactions 3m"),
                 QuickReply("1y", "transactions 1y") >>]]

\* items of SummaryReportGenerator.format_for_kakao: top["best"], top["worst"]
PerformerItems(top) ==
  LET best == IF top.best # <<>>
              THEN <<[title |-> <<"best", top.best[1].prdt_name>>,
                      description |-> top.best[1].evlu_pfls_rt]>>
              ELSE <<>>
      worst == IF top.worst # <<>>
               THEN <<[title |-> <<"worst", top.worst[1].prdt_name>>,
                       description |-> top.worst[1].evlu_pfls_rt]>>
               ELSE <<>>
  IN  IF best \o worst = <<>> THEN NoItems("no holdings") ELSE best \o worst

\* SummaryReportGenerator.format_for_kakao(report): a report without
\* "portfolio" is a KeyError
summary_format_for_kakao(report) ==
  IF "portfolio" \notin DOMAIN report THEN Raise("KeyError")
  ELSE Value(
    [version |-> "2.0",
     template |->
       [outputs |->
          << [textCard |->
                [title |-> "monthly summary",
                 description |->
                   <<IF report.portfolio.total_profit_rate >= 0 THEN "up" ELSE "down",
                     report.portfolio.total_profit_rate,
                     report.portfolio.total_asset, report.trading.total_trades>>,
                 buttons |->
                   <<[action |-> "webLink", label |-> "detail report",
                      webLinkUrl |-> "https://example.com/summary"]>>]],
             [listCard |->
                [header |-> [title |-> "performance"],
                 items |-> PerformerItems(report.top_performers)]] >>,
        quickReplies |->
          << QuickReply("transactions", "transactions 1m"),
             QuickReply("holdings", "holdings") >>]])

\* ChatbotNewsCommunity.format_community_for_kakao(summary)
format_community_for_kakao(summary) ==
  IF "error" \in DOMAIN summary THEN kakao_error_response(summary.error)
  ELSE
    LET company_name == Get(summary, "company_name", "stock")
    IN  [version |-> "2.0",
         template |->
           [outputs |->
              << SimpleText(<<Get(summary, "timestamp", "recent"), company_name,
                              Get(summary, "sentiment_emoji", "neutral"),
                              Get(summary, "summary_text", "")>>),
                 SimpleText(Get(summary, "key_opinions", <<>>)) >>,
            quickReplies |->
              << Block("news", <<company_name, "news">>, "news_block"),
                 Block("other stock", "other stock", "select_stock_block"),
                 [action |-> "webLink", label |-> "web",
                  webLinkUrl |-> Get(summary, "web_url", "https://jutopia.com")],
                 Block("end", "main", "main_block") >>]]

\* key_issues[0].get("url", "") if key_issues else "", or "https://jutopia.com"
FirstNewsUrl(key_issues) ==
  LET url == IF key_issues = <<>> THEN "" ELSE Get(key_issues[1], "url", "")
  IN  IF url = "" THEN "https://jutopia.com" ELSE url

\* ChatbotNewsCommunity.format_news_for_kakao(summary)
format_news_for_kakao(summary) ==
  IF "error" \in DOMAIN summary THEN kakao_error_response(summary.error)
  ELSE
    LET key_issues == Get(summary, "key_issues", <<>>)
    IN  [version |-> "2.0",
         template |->
           [outputs |->
              << SimpleText(<<Get(summary, "timestamp", "recent"),
                              Get(summary, "company_name", "stock"),
                              [i \in 1..Len(key_issues) |-> key_issues[i].title]>>) >>,
            quickReplies |->
              << [action |-> "webLink", label |-> "article",
                  webLinkUrl |-> FirstNewsUrl(key_issues)],
                 Block("other stock", "other stock", "select_stock_block"),
                 [action |-> "webLink", label |-> "web",
                  webLinkUrl |-> Get(summary, "web_url", "https://jutopia.com")],
                 Block("end", "main", "main_block") >>]]

\* ---- the reports and summaries the formatters are given

\* The text of a report section: its length, the length of its first
\* sentence, the words _extract_opinion looks for, and the first amount in won.
SectionTexts ==
  { NoText,
    [chars |-> 40, first |-> 20, words |-> {"buy", "low risk"}, won |-> "115,000"],
    [chars |-> 300, first |-> 120, words |-> {"hold", "sell"}, won |-> None],
    [chars |-> 30, first |-> 30, words |-> {"wait", "high risk"}, won |-> None] }

\* sections of _parse_report_sections, or {} when the LLM call failed
Sections ==
  { <<>> } \cup
  { [summary |-> t, investment_opinion |-> t] : t \in SectionTexts }

\* get_key_metrics / calculate_from_dataframe
Metrics == { <<>>, [per |-> 12, pbr |-> 1, roe |-> 8], [per |-> 12] }

ReportTickers == {"005930", "035720"}

\* get_stock_name(ticker)
CompanyName(t) == IF t = "005930" THEN "Samsung" ELSE "Kakao"

\* RealtimeStockReportGenerator.generate_report(ticker): the error report, or
\* metadata, report and raw_data with the basic information of the stock
GeneratedReports ==
  { [error |-> "no data", ticker |-> t] : t \in ReportTickers }
    \cup
  { [metadata |-> [ticker |-> t, company_name |-> CompanyName(t)],
     report |-> [sections |-> s],
     raw_data |-> [basic |-> [current_price |-> 71300, price_change |-> c,
                              price_change_pct |-> c],
                   metrics |-> m]] :
    t \in ReportTickers, s \in Sections, c \in {-1200, 0, 1200}, m \in Metrics }

DetailUrls == {None, "", "https://jutopia.com/report"}

\* by_stock of get_transaction_summary, sorted by profit_rate, highest first
StockSummaries ==
  LET row(n, r) == [prdt_name |-> n, profit_rate |-> r, trades |-> 2]
  IN  { <<>>, <<row("Samsung", 5)>>, <<row("Samsung", 5), row("Kakao", -3)>>,
        <<row("Samsung", 5), row("Naver", 0), row("Kakao", -3)>>,
        <<row("Samsung", 5), row("Naver", 0), row("Kakao", -3), row("LG", -7)>> }

\* TransactionReportGenerator.generate_report(period): the error report when
\* there is no transaction, else _build_report(...)
TransactionReports ==
  { [error |-> "no transactions", period |-> p] : p \in {"1m", "1y"} }
    \cup
  { [metadata |-> [period_text |-> "1 month"],
     summary |-> [total_trades |-> 4, total_buy_amount |-> 100,
                  total_sell_amount |-> 100 + n, net_amount |-> n],
     stock_summary |-> ss] :
    n \in {-10, 0, 10}, ss \in StockSummaries }

\* _get_top_performers(holdings)
TopPerformers ==
  { [best |-> <<>>, worst |-> <<>>] } \cup
  { [best |-> <<[prdt_name |-> "Samsung", evlu_pfls_rt |-> b]>>,
     worst |-> <<[prdt_name |-> "Kakao", evlu_pfls_rt |-> w]>>] :
    b \in {5, -1}, w \in {-1, -7} }

\* SummaryReportGenerator.generate_monthly_summary()
SummaryReports ==
  { [portfolio |-> [total_profit_rate |-> r, total_asset |-> 1000],
     trading |-> [total_trades |-> n],
     top_performers |-> top] :
    r \in {-2, 0, 3}, n \in {0, 4}, top \in TopPerformers }

\* _error_response(reason) of get_community_summary and get_news_summary
SummaryErrors == { [error |-> e, fetched_at |-> "t"] : e \in {"API_ERROR", "NO_DATA"} }

\* get_community_summary(symbol, company_name)
CommunitySummaries ==
  SummaryErrors \cup
  { [symbol |-> t, company_name |-> CompanyName(t), sentiment_emoji |-> e,
     summary_text |-> "text", key_opinions |-> k, timestamp |-> "just now",
     web_url |-> "https://jutopia.com/stock/" \o t \o "/community"] :
    t \in ReportTickers, e \in {"positive", "neutral", "negative"},
    k \in {<<>>, <<"o1">>, <<"o1", "o2", "o3">>} }

\* key_issues of _convert_to_key_issues
KeyIssues ==
  { <<>>, <<[title |-> "t1", url |-> "https://news/1"]>>,
    <<[title |-> "t1"], [title |-> "t2", url |-> "https://news/2"]>>,
    <<[title |-> "t1", url |-> ""]>> }

\* get_news_summary(symbol, company_name)
NewsSummaries ==
  SummaryErrors \cup
  { [symbol |-> t, company_name |-> CompanyName(t), key_issues |-> k,
     timestamp |-> "recent", web_url |-> "https://jutopia.com/stock/" \o t \o "/news"] :
    t \in ReportTickers, k \in KeyIssues }

\* ---- one call of a formatter

kakao_report ==
  \E r \in GeneratedReports, u \in DetailUrls :
    Call("KakaoReportFormatter.format_for_kakao",
         [report_data |-> r, detail_url |-> u], report_format_for_kakao(r, u))

kakao_transaction ==
  \E r \in TransactionReports :
    Call("TransactionReportGenerator.format_for_kakao", [report |-> r],
         Value(transaction_format_for_kakao(r)))

kakao_summary ==
  \E r \in SummaryReports :
    Call("SummaryReportGenerator.format_for_kakao", [report |-> r],
         summary_format_for_kakao(r))

kakao_community ==
  \E su \in CommunitySummaries :
    Call("format_community_for_kakao", [summary |-> su],
         Value(format_community_for_kakao(su)))

kakao_news ==
  \E su \in NewsSummaries :
    Call("format_news_for_kakao", [summary |-> su],
         Value(format_news_for_kakao(su)))

KakaoNext ==
  \/ kakao_report /\ UNCHANGED disk
  \/ kakao_transaction /\ UNCHANGED disk
  \/ kakao_summary /\ UNCHANGED disk
  \/ kakao_community /\ UNCHANGED disk
  \/ kakao_news /\ UNCHANGED disk
  \/ discard /\ UNCHANGED disk

KakaoSpec == Init /\ [][KakaoNext]_vars

\* ------------------------------------------------------------ claims

KakaoFormatters ==
  {"KakaoReportFormatter.format_for_kakao",
   "TransactionReportGenerator.format_for_kakao",
   "SummaryReportGenerator.format_for_kakao",
   "format_community_for_kakao", "format_news_for_kakao"}

\* A formatter has built a response.
Built == op \in KakaoFormatters /\ ret.kind = "value"

\* The response: kakao_response of KakaoReportFormatter's result, else the
\* result itself.
Response ==
  IF op = "KakaoReportFormatter.format_for_kakao"
  THEN ret.val.kakao_response ELSE ret.val

\* The argument is an error report or an error summary.
OfError ==
  \/ "report" \in DOMAIN args /\ "error" \in DOMAIN args.report
  \/ "summary" \in DOMAIN args /\ "error" \in DOMAIN args.summary

HasVersionAndOutputs ==
  /\ Response.version = "2.0"
  /\ Len(Response.template.outputs) > 0

HasQuickReplies == "quickReplies" \in DOMAIN Response.template

Outputs == ret.val.kakao_response.template.outputs

\* The card has one webLink button, to url.
LinksTo(card, url) ==
  /\ "buttons" \in DOMAIN card
  /\ Len(card.buttons) = 1
  /\ card.buttons[1].action = "webLink"
  /\ card.buttons[1].webLinkUrl = url

MaxClock == 2

Symbols == {"005930", "035720"}

\* limit
Limits == 0..3

\* f"calc_{timestamp}_{symbol}"
CalcId(timestamp, symbol) == <<"calc", timestamp, symbol>>

\* calculation_id.split('_')[0]
SymbolOfFirst(calculation_id) == calculation_id[1]

\* calculation_id.split('_')[-1]
SymbolOf(calculation_id) == calculation_id[Len(calculation_id)]

\* The return values of calculate_by_quantity and calculate_by_amount.
CalculationResult(mode, new_avg) ==
  [company_name |-> "Samsung", calculation_mode |-> mode,
   input |->
     [current_avg_price |-> 75000, current_quantity |-> 100,
      current_price |-> 70000] @@
     (IF mode = "quantity"
      THEN [additional_price |-> 70000, additional_quantity |-> 10]
      ELSE [investment_amount |-> 700000, purchase_price |-> 70000,
            calculated_quantity |-> 10]),
   result |-> [new_avg_price |-> new_avg, total_quantity |-> 110,
               total_cost |-> 8200000, breakeven_price |-> new_avg]]

NotHolding == [error |-> "NOT_HOLDING", message |-> "not holding", symbol |-> "005930"]

CalculationResults ==
  {NotHolding, CalculationResult("quantity", 74545), CalculationResult("amount", 74000)}

\* save_data["input"]: a KeyError when the result is of the other mode
SavedInputKeys(input_mode) ==
  IF input_mode = "quantity" THEN {"additional_price", "additional_quantity"}
  ELSE {"investment_amount", "purchase_price", "calculated_quantity"}

\* symbol_dir.mkdir(exist_ok=True)
Mkdir(fs, symbol) == IF symbol \in DOMAIN fs THEN fs ELSE (symbol :> <<>>) @@ fs

\* open(file_path, 'w') and json.dump(save_data, f)
WriteFile(fs, symbol, name, data) ==
  [fs EXCEPT ![symbol] = (name :> [mtime |-> now, data |-> data]) @@ fs[symbol]]

\* file_path.unlink()
Unlink(fs, symbol, name) ==
  [fs EXCEPT ![symbol] = [n \in DOMAIN fs[symbol] \ {name} |-> fs[symbol][n]]]

\* file_path.exists()
Exists(fs, symbol, name) == symbol \in DOMAIN fs /\ name \in DOMAIN fs[symbol]

\* A call of a method of the provider that leaves the disk as fs.
StoreCall(name, a, result, fs) ==
  /\ Call(name, a, result)
  /\ files' = fs /\ now' = now

\* save_calculation(symbol, calculation_result, input_mode)
save_calculation(symbol, calculation_result, input_mode) ==
  LET dir == Mkdir(files, symbol)
      calculation_id == CalcId(now, symbol)
      failed == [error |-> "SAVE_FAILED", message |-> "KeyError", symbol |-> symbol]
  IN  IF "input" \notin DOMAIN calculation_result
      THEN StoreCall("save_calculation",
                     [symbol |-> symbol, input_mode |-> input_mode],
                     Value(failed), dir)
      ELSE IF ~(SavedInputKeys(input_mode) \subseteq DOMAIN calculation_result.input)
      THEN StoreCall("save_calculation",
                     [symbol |-> symbol, input_mode |-> input_mode],
                     Value(failed), dir)
      ELSE
        LET save_data ==
              [calculation_id |-> calculation_id, symbol |-> symbol,
               company_name |-> Get(calculation_result, "company_name", ""),
               saved_at |-> now, calculation_mode |-> input_mode,
               snapshot |->
                 [k \in {"current_avg_price", "current_quantity", "current_price"}
                    |-> calculation_result.input[k]],
               input |-> [k \in SavedInputKeys(input_mode)
                            |-> calculation_result.input[k]],
               result |-> calculation_result.result]
        IN  StoreCall("save_calculation",
                      [symbol |-> symbol, input_mode |-> input_mode],
                      Value([calculation_id |-> calculation_id, symbol |-> symbol,
                             saved_at |-> now, message |-> "saved"]),
                      WriteFile(dir, symbol, calculation_id, save_data))

\* sorted(symbol_dir.glob("calc_*.json"), key=st_mtime), oldest first
RECURSIVE SortedOldestFirst(_, _)
SortedOldestFirst(dir, names) ==
  IF names = {} THEN <<>>
  ELSE LET first == CHOOSE n \in names :
                      \A m \in names : dir[n].mtime <= dir[m].mtime
       IN  <<first>> \o SortedOldestFirst(dir, names \ {first})

\* sorted(symbol_dir.glob("calc_*.json"), key=st_mtime, reverse=True)
RECURSIVE Sorted(_, _)
Sorted(dir, names) ==
  IF names = {} THEN <<>>
  ELSE LET first == CHOOSE n \in names :
                      \A m \in names : dir[n].mtime >= dir[m].mtime
       IN  <<first>> \o Sorted(dir, names \ {first})

\* The summary get_calculation_history makes of a file.
HistoryEntry(data) ==
  [calculation_id |-> data.calculation_id, saved_at |-> data.saved_at,
   calculation_mode |-> data.calculation_mode, input |-> data.input,
   result_summary |->
     [new_avg_price |-> data.result.new_avg_price,
      total_quantity |-> data.result.total_quantity,
      total_cost |-> data.result.total_cost]]

\* _get_company_name(symbol): HantuStock has no get_stock_price, the
\* AttributeError is caught and the symbol returned.
get_company_name(symbol) == symbol

\* The result of get_calculation_history(symbol, limit) on the disk fs.
History(fs, symbol, limit) ==
  IF symbol \notin DOMAIN fs
  THEN [symbol |-> symbol, company_name |-> get_company_name(symbol),
        total_count |-> 0, calculations |-> <<>>]
  ELSE
    LET json_files == Sorted(fs[symbol], DOMAIN fs[symbol])
        loaded == FirstN(json_files, limit)
        calculations ==
          [i \in 1..Len(loaded) |-> HistoryEntry(fs[symbol][loaded[i]].data)]
    IN  [symbol |-> symbol, company_name |-> get_company_name(symbol),
         total_count |-> Len(calculations), calculations |-> calculations]

\* get_calculation_history(symbol, limit)
get_calculation_history(symbol, limit) ==
  StoreCall("get_calculation_history", [symbol |-> symbol, limit |-> limit],
            Value(History(files, symbol, limit)), files)

\* delete_calculation(calculation_id)
delete_calculation(calculation_id) ==
  LET symbol == SymbolOf(calculation_id)
  IN  IF ~Exists(files, symbol, calculation_id)
      THEN StoreCall("delete_calculation", [calculation_id |-> calculation_id],
                     Value([success |-> FALSE, message |-> "not found"]), files)
      ELSE StoreCall("delete_calculation", [calculation_id |-> calculation_id],
                     Value([success |-> TRUE, message |-> "deleted"]),
                     Unlink(files, symbol, calculation_id))

\* A second passes.
tick ==
  /\ now < MaxClock /\ pc = "idle" /\ op = "none"
  /\ now' = now + 1
  /\ UNCHANGED <<instance, retry, locals, pc, sent, pages, op, args, ret, files>>

\* The ids a caller may ask to delete: of any second and symbol, stored or not.
CalculationIds ==
  { CalcId(t, sym) : t \in 0..MaxClock, sym \in Symbols \cup {"000660"} }

StoreNext ==
  \/ /\ pc = "idle" /\ op = "none"
     /\ \E sym \in Symbols, r \in CalculationResults, m \in {"quantity", "amount"} :
          save_calculation(sym, r, m)
  \/ /\ pc = "idle" /\ op = "none"
     /\ \E sym \in Symbols, l \in Limits : get_calculation_history(sym, l)
  \/ /\ pc = "idle" /\ op = "none"
     /\ \E id \in CalculationIds : delete_calculation(id)
  \/ tick
  \/ discard /\ UNCHANGED disk

StoreSpec == Init /\ [][StoreNext]_vars

\* ------------------------------------------------------------ claims

\* The ids of the calculations stored for the symbol on the disk fs.
StoredIds(fs, symbol) == IF symbol \in DOMAIN fs THEN DOMAIN fs[symbol] ELSE {}

\* The second at which the calculation of the id was saved.
SavedSecond(calculation_id) == calculation_id[2]

\* The ids the returned history lists, in order.
Listed == [i \in 1..Len(ret.val.calculations) |->
             ret.val.calculations[i].calculation_id]

HistoryReturned == op = "get_calculation_history" /\ ret.kind = "value"

\* C13: get_calculation_history(symbol, limit) returns at most limit entries;
\* they are calculations stored for the symbol, each once, the most recently
\* saved ones (every stored calculation left out is older than every one
\* listed, and none is left out while there is room), newest first; with
\* nothing stored total_count is 0 and the list empty.
C13_RecentHistory ==
  HistoryReturned =>
    LET stored == StoredIds(files, args.symbol)
        n == Len(Listed)
    IN  /\ n <= args.limit
        /\ n = Min(args.limit, Cardinality(stored))
        /\ \A i \in 1..n : Listed[i] \in stored
        /\ \A i, j \in 1..n : i < j => SavedSecond(Listed[i]) > SavedSecond(Listed[j])
        /\ \A id \in stored :
             (\A i \in 1..n : Listed[i] # id) =>
               \A i \in 1..n : SavedSecond(id) < SavedSecond(Listed[i])
        /\ \A i \in 1..n :
             ret.val.calculations[i] = HistoryEntry(files[args.symbol][Listed[i]].data)
        /\ stored = {} => ret.val.total_count = 0 /\ n = 0

C13_Witness ==
  /\ HistoryReturned /\ args.limit = 2
  /\ Cardinality(StoredIds(files, args.symbol)) = 3
  /\ Len(Listed) = 2

\* C14: total_count of get_calculation_history is the number of calculations
\* stored for the symbol, whatever the limit.
C14_TotalCount ==
  HistoryReturned =>
    ret.val.total_count = Cardinality(StoredIds(files, args.symbol))

\* A file of the disk fs has the name id.
IsStored(fs, id) == \E sym \in DOMAIN fs : id \in DOMAIN fs[sym]

\* C15: delete_calculation(id) of a stored id returns success True, removes
\* the file of that id and no other (the other files of the symbol and of
\* the other symbols keep their content), and no history lists the id any
\* more; of an id that is not stored (never saved, or deleted before) it
\* returns success False and leaves the disk as it is.
C15_DeleteExactlyOne ==
  [][(op = "none" /\ op' = "delete_calculation") =>
       LET id == args'.calculation_id
       IN  IF IsStored(files, id)
           THEN /\ ret'.val.success
                /\ ~IsStored(files', id)
                /\ DOMAIN files' = DOMAIN files
                /\ \A sym \in DOMAIN files :
                     /\ DOMAIN files'[sym] = DOMAIN files[sym] \ {id}
                     /\ \A n \in DOMAIN files'[sym] : files'[sym][n] = files[sym][n]
                /\ \A sym \in Symbols, l \in Limits :
                     \A i \in 1..Len(History(files', sym, l).calculations) :
                       History(files', sym, l).calculations[i].calculation_id # id
           ELSE /\ ~ret'.val.success
                /\ files' = files]_vars

C15_Witness ==
  /\ op = "delete_calculation" /\ ret.val.success
  /\ SymbolOf(args.calculation_id) \in DOMAIN files
  /\ files[SymbolOf(args.calculation_id)] # <<>>
  /\ \E sym \in DOMAIN files :
       sym # SymbolOf(args.calculation_id) /\ files[sym] # <<>>

\* ================================================ the averaging calculator
\* src/averaging_calculator.py: AveragingCalculator.calculate and
\* calculate_target_quantity, and StockAveragingDataProvider.calculate_by_amount
\* (src/stock_averaging_data.py), which uses it.  Prices and amounts are whole
\* won; a percentage is counted in hundredths of a percent.

\* The largest quantity held or bought.
MaxQty == 3

\* int(n / d) for d > 0: towards zero
IntDiv(n, d) == IF n >= 0 THEN n \div d ELSE -((-n) \div d)

\* math.ceil(n / d) for d > 0
CeilDiv(n, d) == -((-n) \div d)

\* round(n / d * 100, 2) for d > 0, in hundredths: to the nearest, a tie to
\* the even one
Round2(n, d) ==
  LET m == IF n >= 0 THEN n * 10000 ELSE -n * 10000
      q == m \div d
      r == m % d
      up == IF 2 * r > d \/ (2 * r = d /\ q % 2 = 1) THEN q + 1 ELSE q
  IN  IF n >= 0 THEN up ELSE -up

\* new_avg rounded up
NewAvgCeiling(total_cost, total_qty) ==
  IF total_qty > 0 THEN CeilDiv(total_cost, total_qty) ELSE 0

\* int(new_avg), new_avg = total_cost / total_qty if total_qty > 0 else 0
NewAvg(total_cost, total_qty) ==
  IF total_qty > 0 THEN IntDiv(total_cost, total_qty) ELSE 0

\* AveragingCalculator.calculate(avg_price, quantity, current_price, add_quantity)
calculate(avg_price, quantity, current_price, add_quantity) ==
  LET existing_cost == avg_price * quantity
      additional_cost == current_price * add_quantity
      total_cost == existing_cost + additional_cost
      total_qty == quantity + add_quantity
      \* change = new_avg - avg_price, over total_qty
      change_n == IF total_qty > 0 THEN total_cost - avg_price * total_qty
                  ELSE -avg_price
      change_d == IF total_qty > 0 THEN total_qty ELSE 1
      profit_if_sell_now == current_price * total_qty - total_cost
  IN  [new_avg |-> NewAvg(total_cost, total_qty),
       change |-> IntDiv(change_n, change_d),
       change_pct |-> IF avg_price > 0
                      THEN Round2(change_n, change_d * avg_price) ELSE 0,
       total_qty |-> total_qty,
       total_cost |-> total_cost,
       breakeven_price |-> NewAvg(total_cost, total_qty),
       profit_if_sell_now |-> profit_if_sell_now,
       profit_pct |-> IF total_cost > 0
                      THEN Round2(profit_if_sell_now, total_cost) ELSE 0]

Infeasible(reason) ==
  [required_qty |-> 0, additional_cost |-> 0, feasible |-> FALSE,
   reason |-> reason]

\* AveragingCalculator.calculate_target_quantity(avg_price, quantity,
\* current_price, target_avg); required_qty = quantity * (avg_price -
\* target_avg) / denominator is negative when its two factors have opposite
\* signs (with quantity 0 it is zero, of either sign, and not < 0)
calculate_target_quantity(avg_price, quantity, current_price, target_avg) ==
  LET denominator == target_avg - current_price
      numerator == quantity * (avg_price - target_avg)
      required_qty_ceil ==
        IF denominator > 0 THEN CeilDiv(numerator, denominator)
        ELSE CeilDiv(-numerator, -denominator)
      verify_result ==
        calculate(avg_price, quantity, current_price, required_qty_ceil)
  IN  IF current_price >= avg_price /\ ~(target_avg > avg_price)
      THEN Infeasible("the price is above the average: it cannot be lowered")
      ELSE IF current_price < avg_price /\ target_avg < avg_price
                /\ target_avg < current_price
      THEN Infeasible("the target is below the price")
      ELSE IF current_price < avg_price /\ ~(target_avg < avg_price)
      THEN Infeasible("the price is below the average: it cannot be raised")
      ELSE IF denominator = 0
      THEN Infeasible("the target is the price")
      ELSE IF (numerator > 0 /\ denominator < 0) \/ (numerator < 0 /\ denominator > 0)
      THEN Infeasible("the conditions do not fit")
      ELSE [required_qty |-> required_qty_ceil,
            additional_cost |-> current_price * required_qty_ceil,
            feasible |-> TRUE,
            actual_avg |-> verify_result.new_avg,
            target_avg |-> target_avg,
            difference |-> verify_result.new_avg - target_avg]

\* self.hantu.get_holdings(): HantuStock (src/HantuStock.py) defines no
\* get_holdings, the attribute lookup raises AttributeError.
get_holdings(account) == Raise("AttributeError")

\* StockAveragingDataProvider.get_holding_info(symbol), the account holding
\* the items of account
get_holding_info(symbol, account) ==
  LET holdings == get_holdings(account)
  IN  IF holdings.kind = "raise"
      THEN [error |-> "API_ERROR", message |-> <<"API_ERROR", holdings.exc>>,
            symbol |-> symbol]
      ELSE
        LET found == {i \in 1..Len(holdings.val) : holdings.val[i].symbol = symbol}
        IN  IF found = {}
            THEN [symbol |-> symbol, company_name |-> get_company_name(symbol),
                  is_holding |-> FALSE, message |-> "not holding"]
            ELSE
              LET holding == holdings.val[CHOOSE i \in found : \A j \in found : i <= j]
              IN  [symbol |-> symbol, company_name |-> holding.name,
                   is_holding |-> TRUE,
                   holding_info |->
                     [quantity |-> holding.quantity,
                      avg_price |-> holding.avg_price,
                      current_price |-> holding.current_price,
                      total_cost |-> holding.avg_price * holding.quantity,
                      current_value |-> holding.current_price * holding.quantity,
                      profit_loss |-> (holding.current_price - holding.avg_price)
                                        * holding.quantity]]

\* StockAveragingDataProvider.calculate_by_amount(symbol, investment_amount,
\* purchase_price)
calculate_by_amount(symbol, investment_amount, purchase_price, account) ==
  LET holding_info == get_holding_info(symbol, account)
  IN  IF ~Get(holding_info, "is_holding", FALSE)
      THEN Value([error |-> "NOT_HOLDING",
                  message |-> Get(holding_info, "message", "not a holding"),
                  symbol |-> symbol,
                  company_name |-> Get(holding_info, "company_name", "")])
      ELSE IF purchase_price = 0 THEN Raise("ZeroDivisionError")
      ELSE
        LET calculated_quantity == IntDiv(investment_amount, purchase_price)
            actual_investment == purchase_price * calculated_quantity
            holding == holding_info.holding_info
            result == calculate(holding.avg_price, holding.quantity,
                                purchase_price, calculated_quantity)
        IN  Value(
              [symbol |-> symbol, company_name |-> holding_info.company_name,
               calculation_mode |-> "amount",
               input |->
                 [current_avg_price |-> holding.avg_price,
                  current_quantity |-> holding.quantity,
                  current_price |-> holding.current_price,
                  investment_amount |-> investment_amount,
                  purchase_price |-> purchase_price,
                  calculated_quantity |-> calculated_quantity],
               result |->
                 [new_avg_price |-> result.new_avg,
                  avg_price_change |-> result.change,
                  avg_price_change_pct |-> result.change_pct,
                  total_quantity |-> result.total_qty,
                  total_cost |-> result.total_cost,
                  additional_cost |-> actual_investment,
                  breakeven_price |-> result.breakeven_price,
                  profit_if_sell_now |-> result.profit_if_sell_now,
                  profit_pct |-> result.profit_pct]])

\* avg_price, current_price, target_avg
WonPrices == {2, 3, 5, 7, 8}

\* the holdings of the brokerage account
Accounts ==
  { <<>>,
    <<[symbol |-> "005930", name |-> "Samsung", quantity |-> 3, avg_price |-> 7,
       current_price |-> 5]>>,
    <<[symbol |-> "035720", name |-> "Kakao", quantity |-> 1, avg_price |-> 3,
       current_price |-> 5],
      [symbol |-> "005930", name |-> "Samsung", quantity |-> 2, avg_price |-> 8,
       current_price |-> 5]>> }

\* investment_amount
Amounts == {0, 10, 25}

avg_calculate ==
  \E a \in WonPrices, q \in 0..MaxQty, c \in WonPrices, add \in 0..MaxQty :
    Call("calculate",
         [avg_price |-> a, quantity |-> q, current_price |-> c, add_quantity |-> add],
         Value(calculate(a, q, c, add)))

avg_target ==
  \E a \in WonPrices, q \in 0..MaxQty, c \in WonPrices, t \in WonPrices :
    Call("calculate_target_quantity",
         [avg_price |-> a, quantity |-> q, current_price |-> c, target_avg |-> t],
         Value(calculate_target_quantity(a, q, c, t)))

avg_by_amount ==
  \E sym \in Symbols, amount \in Amounts, price \in WonPrices, acc \in Accounts :
    Call("calculate_by_amount",
         [symbol |-> sym, investment_amount |-> amount, purchase_price |-> price,
          account |-> acc],
         calculate_by_amount(sym, amount, price, acc))

AveragingNext ==
  \/ avg_calculate /\ UNCHANGED disk
  \/ avg_target /\ UNCHANGED disk
  \/ avg_by_amount /\ UNCHANGED disk
  \/ discard /\ UNCHANGED disk

AveragingSpec == Init /\ [][AveragingNext]_vars

\* ------------------------------------------------------------ claims

\* The items of the account that hold the symbol.
HoldingsOf(account, symbol) ==
  {i \in 1..Len(account) : account[i].symbol = symbol}

\* C16: for a symbol the account holds, calculate_by_amount(symbol,
\* investment_amount, purchase_price) returns input.calculated_quantity =
\* floor(investment_amount / purchase_price) and result.additional_cost =
\* purchase_price * calculated_quantity, not above investment_amount, with
\* the averaging result AveragingCalculator.calculate gives for that quantity.
C16_ByAmount ==
  (op = "calculate_by_amount" /\ HoldingsOf(args.account, args.symbol) # {}) =>
    /\ ret.kind = "value"
    /\ "input" \in DOMAIN ret.val /\ "result" \in DOMAIN ret.val
    /\ LET n == ret.val.input.calculated_quantity
           holding == args.account[CHOOSE i \in HoldingsOf(args.account, args.symbol) :
                                     \A j \in HoldingsOf(args.account, args.symbol) : i <= j]
           averaged == calculate(holding.avg_price, holding.quantity,
                                 args.purchase_price, n)
       IN  /\ n * args.purchase_price <= args.investment_amount
           /\ args.investment_amount < (n + 1) * args.purchase_price
           /\ ret.val.result.additional_cost = args.purchase_price * n
           /\ ret.val.result.additional_cost <= args.investment_amount
           /\ ret.val.result.new_avg_price = averaged.new_avg
           /\ ret.val.result.total_quantity = averaged.total_qty
           /\ ret.val.result.total_cost = averaged.total_cost

\* C17: calculate(avg_price, quantity, current_price, add_quantity) returns
\* total_qty = quantity + add_quantity, total_cost = avg_price * quantity +
\* current_price * add_quantity, new_avg = floor(total_cost / total_qty) when
\* total_qty > 0 and 0 otherwise, breakeven_price = new_avg and
\* profit_if_sell_now = current_price * total_qty - total_cost; with
\* add_quantity = 0 and quantity > 0, new_avg = avg_price and change = 0.
C17_Calculate ==
  op = "calculate" =>
    LET r == ret.val
    IN  /\ r.total_qty = args.quantity + args.add_quantity
        /\ r.total_cost = args.avg_price * args.quantity
                            + args.current_price * args.add_quantity
        /\ IF r.total_qty > 0
           THEN /\ r.new_avg * r.total_qty <= r.total_cost
                /\ r.total_cost < (r.new_avg + 1) * r.total_qty
           ELSE r.new_avg = 0
        /\ r.breakeven_price = r.new_avg
        /\ r.profit_if_sell_now = args.current_price * r.total_qty - r.total_cost
        /\ (args.add_quantity = 0 /\ args.quantity > 0) =>
             r.new_avg = args.avg_price /\ r.change = 0

C17_Witness ==
  /\ op = "calculate" /\ ret.val.total_qty > 0
  /\ ret.val.total_cost % ret.val.total_qty # 0
  /\ args.add_quantity > 0

\* The target is beyond the price at which shares are bought, or on the side
\* of the average that buying at that price moves away from.
BeyondPrice ==
  \/ args.target_avg < args.avg_price /\ args.target_avg < args.current_price
  \/ args.target_avg > args.avg_price /\ args.target_avg > args.current_price

WrongSide ==
  \/ args.current_price >= args.avg_price /\ args.target_avg < args.avg_price
  \/ args.current_price < args.avg_price /\ args.target_avg > args.avg_price

\* C18: when calculate_target_quantity returns feasible True, required_qty is
\* a whole number >= 0 and the average after buying required_qty shares at
\* current_price has reached the target (actual_avg <= target_avg for a
\* target below avg_price, >= for a target above); when it returns feasible
\* False, required_qty = 0, additional_cost = 0 and a reason is given; it
\* returns feasible False whenever the target is beyond current_price or on
\* the wrong side of avg_price.
C18_TargetQuantity ==
  op = "calculate_target_quantity" =>
    LET r == ret.val
    IN  /\ IF r.feasible
           THEN /\ r.required_qty \in Nat
                /\ r.actual_avg = calculate(args.avg_price, args.quantity,
                                            args.current_price, r.required_qty).new_avg
                /\ args.target_avg < args.avg_price => r.actual_avg <= args.target_avg
                /\ args.target_avg > args.avg_price => r.actual_avg >= args.target_avg
           ELSE /\ r.required_qty = 0 /\ r.additional_cost = 0
                /\ "reason" \in DOMAIN r
        /\ (BeyondPrice \/ WrongSide) => ~r.feasible

\* ==================================================================
\* stock_list_data.py: StockListDataProvider, the market stock list
\* ==================================================================

\* limit=500 of the get_market_stocks call in get_sorted_market_stocks.
FetchLimit == 500

\* The date of the most recent business day.
DateStr == "20261030"

\* The market arguments that are tried.
Markets == {"KOSPI", "KOSDAQ", "ALL"}

\* What pykrx answers: whether the import of pykrx succeeded, the number of
\* rows of each market's OHLCV frame, how the closing prices run along the
\* index of the frame, and whether the request raises.
Trends == {"rising", "falling", "flat"}
Listings ==
  [KOSPI : {0, 2, FetchLimit, FetchLimit + 1}, KOSDAQ : {3},
   trend : Trends, raises : {FALSE}, installed : {TRUE}]
    \cup [KOSPI : {2}, KOSDAQ : {3}, trend : {"flat"}, raises : BOOLEAN,
          installed : {~r : r \in BOOLEAN}]

\* Row i of the frame of market m, as the stock get_market_stocks makes of
\* it: change_rate in hundredths of a percent, name by the rank of the name
\* in string order.
Row(listing, m, i) ==
  [ticker |-> <<m, i>>,
   name |-> 2 * i + (IF m = "KOSDAQ" THEN 1 ELSE 0),
   current_price |-> CASE listing.trend = "rising" -> 1000 + i
                       [] listing.trend = "falling" -> 2000 - i
                       [] OTHER -> 1000,
   change_rate |-> ((i * 5) % 7) * 100 - 300,
   volume |-> ((i * 37) % 101) + (IF m = "KOSDAQ" THEN 1 ELSE 0)]

\* get_market_ohlcv(date_str, market=m), row by row in index order
Ohlcv(listing, m) == [i \in 1..listing[m] |-> Row(listing, m, i)]

\* df: the frame of the market, both frames concatenated for "ALL"
Frame(listing, market) ==
  IF market = "ALL"
  THEN Ohlcv(listing, "KOSPI") \o Ohlcv(listing, "KOSDAQ")
  ELSE Ohlcv(listing, market)

\* get_market_stocks(market, limit)
get_market_stocks(listing, market, limit) ==
  IF ~listing.installed THEN [error |-> "pykrx not installed"]
  ELSE IF listing.raises THEN [error |-> "str(e)"]
  ELSE LET df == Frame(listing, market)
           stocks == FirstN(df, limit)
       IN  IF Len(df) = 0
           THEN [error |-> "no data", date |-> DateStr]
           ELSE [date |-> DateStr, market |-> market,
                 count |-> Len(stocks), stocks |-> stocks]

\* sort_keys.get(sort_by, "current_price")
SortBys == {"price", "change_rate", "volume", "name", "market_cap"}
Orders == {"asc", "desc"}
SortKeyAlwaysPrice(sort_by) == "current_price"
SortKey(sort_by) ==
  CASE sort_by = "price" -> "current_price"
    [] sort_by = "change_rate" -> "change_rate"
    [] sort_by = "volume" -> "volume"
    [] sort_by = "name" -> "name"
    [] OTHER -> "current_price"

\* sort_stocks(stocks, sort_by, order): sorted() is stable, and with
\* reverse=True it keeps equal elements in their original order.
sort_stocks(stocks, sort_by, sort_order) ==
  LET key == SortKey(sort_by)
      reverse == (sort_order = "desc")
  IN  SortSeq(stocks,
              LAMBDA x, y : IF reverse THEN Get(x, key, 0) > Get(y, key, 0)
                                       ELSE Get(x, key, 0) < Get(y, key, 0))

\* get_sorted_market_stocks(market, sort_by, order, limit)
get_sorted_market_stocks(listing, market, sort_by, sort_order, limit) ==
  LET result == get_market_stocks(listing, market, FetchLimit)
  IN  IF "error" \in DOMAIN result THEN result
      ELSE LET sorted_stocks == sort_stocks(result.stocks, sort_by, sort_order)
           IN  [date |-> result.date, market |-> market,
                sort_by |-> sort_by, order |-> sort_order,
                count |-> Min(Len(sorted_stocks), limit),
                stocks |-> FirstN(sorted_stocks, limit)]

\* ---------------------------------------------------------- actions

list_market ==
  \E listing \in Listings, market \in Markets, limit \in Limits :
    Call("get_market_stocks",
         [listing |-> listing, market |-> market, limit |-> limit],
         Value(get_market_stocks(listing, market, limit)))

list_sorted ==
  \E listing \in Listings, market \in Markets,
     sort_by \in SortBys, sort_order \in Orders, limit \in Limits :
    Call("get_sorted_market_stocks",
         [listing |-> listing, market |-> market,
          sort_by |-> sort_by, order |-> sort_order, limit |-> limit],
         Value(get_sorted_market_stocks(listing, market, sort_by, sort_order, limit)))

StockListNext ==
  \/ list_market /\ UNCHANGED disk
  \/ list_sorted /\ UNCHANGED disk
  \/ discard /\ UNCHANGED disk

StockListSpec == Init /\ [][StockListNext]_vars

\* ------------------------------------------------------------ claims

\* get_sorted_market_stocks has returned a stock list, not an error.
SortedReturned ==
  op = "get_sorted_market_stocks" /\ "error" \notin DOMAIN ret.val

\* x does not rank after y by the key in the order asked for.
RanksNoLater(x, y, key, sort_order) ==
  IF sort_order = "desc" THEN x[key] >= y[key] ELSE x[key] <= y[key]

\* C19: get_sorted_market_stocks(market, sort_by, order, limit) returns the
\* limit stocks that rank first by the sort key in the requested order among
\* all stocks of the requested market, in sorted order, with count equal to
\* the number of stocks returned.
C19_TopOfMarket ==
  SortedReturned =>
    LET all == Frame(args.listing, args.market)
        key == SortKey(args.sort_by)
        stocks == ret.val.stocks
        returned == {stocks[i] : i \in 1..Len(stocks)}
    IN  /\ ret.val.count = Len(stocks)
        /\ Len(stocks) = Min(args.limit, Len(all))
        /\ Cardinality(returned) = Len(stocks)
        /\ \A i \in 1..Len(stocks) :
             /\ \E j \in 1..Len(all) : all[j] = stocks[i]
             /\ \A j \in (i + 1)..Len(stocks) :
                  RanksNoLater(stocks[i], stocks[j], key, args.order)
             /\ \A j \in 1..Len(all) :
                  all[j] \notin returned =>
                    RanksNoLater(stocks[i], all[j], key, args.order)

\* The same, in the markets whose frame has no more than FetchLimit rows.
C19_WithinFetchLimit ==
  (SortedReturned /\ Len(Frame(args.listing, args.market)) <= FetchLimit)
    => C19_TopOfMarket

\* ==================================================================
\* stock_news_data.py: StockNewsDataProvider.get_news, the news tab
\* ==================================================================

\* The longest list of results Tavily answers with in the model.
MaxResults == 3

\* content[:150] of an item of the response
ContentCut == 150

\* self.investment_keywords, romanised
investment_keywords ==
  <<"juga", "jusik", "tuja", "maesu", "maedo", "mokpyoga", "siljeok",
    "yeongeobiik", "maechul", "baedang", "gongsi", "IR", "analyst",
    "jeunggwon", "fund", "ETF", "sangseung", "harak", "jeonmang">>

\* A text is the sequence of its words; str.lower() word by word.
LowerWord(w) ==
  CASE w = "IR" -> "ir" [] w = "ETF" -> "etf" [] w = "Samsung" -> "samsung"
    [] OTHER -> w
Lower(text) == [i \in 1..Len(text) |-> LowerWord(text[i])]

\* kw in text
Contains(text, kw) == \E i \in 1..Len(text) : text[i] = kw

\* The results Tavily finds: a title, a content and the domain of the URL.
FoundNews ==
  {[title |-> <<"Samsung", "juga">>, content |-> <<"sangseung">>, domain |-> "n.news.naver.com"],
   [title |-> <<"Samsung", "IR">>, content |-> <<"gaechoe">>, domain |-> "www.hankyung.com"],
   [title |-> <<"Samsung", "sinjepum">>, content |-> <<"baedang", "balpyo">>, domain |-> "blog.example.com"],
   [title |-> <<"nalssi">>, content |-> <<>>, domain |-> "www.mk.co.kr"]}

\* The result lists: item i has the URL of path i on its domain.
RawResults ==
  UNION {[1..n -> FoundNews] : n \in 0..MaxResults}
Results(raw) ==
  [i \in 1..Len(raw) |->
     [title |-> raw[i].title, content |-> raw[i].content,
      url |-> [domain |-> raw[i].domain, path |-> i]]]

\* tavily.search_stock_news(...): an error, a result without the "results"
\* key never, or the results with the time of the search
SearchedAt == "2026-11-02 09:00:00"
SearchResults ==
  {[error |-> "Tavily not available", results |-> <<>>]}
    \cup {[results |-> Results(raw), searched_at |-> SearchedAt] : raw \in RawResults}

\* _error_response(reason)
NewsErrorResponse(reason) == [error |-> reason, items |-> <<>>, fetched_at |-> now]

\* _filter_investment_news(results): the items whose lowered title and
\* content hold a keyword, in order
RECURSIVE _filter_investment_news(_)
_filter_investment_news(results) ==
  IF Len(results) = 0 THEN <<>>
  ELSE LET item == results[1]
           text == Lower(Get(item, "title", <<>>) \o Get(item, "content", <<>>))
           rest == _filter_investment_news(Tail(results))
       IN  IF \E k \in 1..Len(investment_keywords) : Contains(text, investment_keywords[k])
           THEN <<item>> \o rest
           ELSE rest

\* _extract_source(url): the first domain of source_map that the URL holds
_extract_source(url) ==
  CASE url.domain \in {"n.news.naver.com", "naver.com"} -> "Naver"
    [] url.domain \in {"www.hankyung.com", "hankyung.com"} -> "Hankyung"
    [] url.domain \in {"www.mk.co.kr", "mk.co.kr"} -> "Maeil"
    [] OTHER -> "news"

\* start_idx = (page - 1) * limit
StartIdxOfNextPage(page, limit) == page * limit
StartIdx(page, limit) == (page - 1) * limit

\* filtered_news[start_idx:end_idx], for indices that are not negative
Slice(q, start_idx, end_idx) ==
  IF start_idx >= Len(q) THEN <<>>
  ELSE SubSeq(q, start_idx + 1, Min(end_idx, Len(q)))

\* get_news(symbol, company_name, page, limit)
get_news(tavily, search_result, symbol, company_name, page, limit) ==
  IF ~tavily THEN NewsErrorResponse("Tavily unavailable")
  ELSE IF "error" \in DOMAIN search_result
  THEN NewsErrorResponse(search_result.error)
  ELSE LET raw_results == Get(search_result, "results", <<>>)
           filtered_news == _filter_investment_news(raw_results)
           start_idx == StartIdx(page, limit)
           end_idx == start_idx + limit
           paged_news == Slice(filtered_news, start_idx, end_idx)
       IN  [symbol |-> symbol, company_name |-> company_name, tab |-> "news",
            page |-> page, limit |-> limit,
            total_count |-> Len(filtered_news),
            has_more |-> end_idx < Len(filtered_news),
            items |-> [i \in 1..Len(paged_news) |->
                         [id |-> <<"news", start_idx + i>>,
                          title |-> Get(paged_news[i], "title", <<>>),
                          content |-> FirstN(Get(paged_news[i], "content", <<>>), ContentCut)
                                        \o <<"...">>,
                          url |-> paged_news[i].url,
                          source |-> _extract_source(paged_news[i].url),
                          published_at |-> Get(search_result, "searched_at", ""),
                          is_investment_related |-> TRUE]],
            fetched_at |-> now]

\* ---------------------------------------------------------- actions

NewsPages == 1..(MaxResults + 1)
PageSizes == 1..3

NewsArgs(tavily, sr, page, limit) ==
  [tavily |-> tavily, search_result |-> sr, symbol |-> "005930",
   company_name |-> "Samsung", page |-> page, limit |-> limit]

NewsResponse(a) ==
  get_news(a.tavily, a.search_result, a.symbol, a.company_name, a.page, a.limit)

\* One request of any page.
news_page ==
  \E tavily \in BOOLEAN, sr \in SearchResults, page \in NewsPages, limit \in PageSizes :
    LET a == NewsArgs(tavily, sr, page, limit)
    IN  Call("get_news", a, Value(NewsResponse(a)))

\* A reader opens the tab: page 1.
news_open ==
  /\ pc = "idle" /\ op = "none"
  /\ \E sr \in SearchResults, limit \in PageSizes :
       LET a == NewsArgs(TRUE, sr, 1, limit)
       IN  /\ op' = "read_news" /\ args' = a /\ ret' = Value(NewsResponse(a))
           /\ pages' = <<NewsResponse(a)>>
  /\ UNCHANGED <<instance, retry, locals, pc, sent>>

\* The reader follows has_more to the next page of the same search results.
news_more ==
  /\ pc = "idle" /\ op = "read_news"
  /\ "error" \notin DOMAIN ret.val /\ ret.val.has_more
  /\ LET a == [args EXCEPT !.page = @ + 1]
     IN  /\ args' = a /\ ret' = Value(NewsResponse(a))
         /\ pages' = Append(pages, NewsResponse(a))
  /\ UNCHANGED <<instance, retry, locals, pc, sent, op>>

NewsNext ==
  \/ news_page /\ UNCHANGED disk
  \/ news_open /\ UNCHANGED disk
  \/ news_more /\ UNCHANGED disk
  \/ discard /\ UNCHANGED disk

NewsSpec == Init /\ [][NewsNext]_vars

\* ------------------------------------------------------------ claims

\* get_news has returned a page, not an error.
NewsReturned ==
  op \in {"get_news", "read_news"} /\ "error" \notin DOMAIN ret.val

\* The filtered news list of the search results of the call.
Filtered == _filter_investment_news(args.search_result.results)

\* The items of the pages the reader has read, page after page.
RECURSIVE ItemsRead(_)
ItemsRead(ps) ==
  IF Len(ps) = 0 THEN <<>> ELSE ps[1].items \o ItemsRead(Tail(ps))

\* The reader has followed has_more to the last page.
ReadToEnd == op = "read_news" /\ NewsReturned /\ ~ret.val.has_more

\* C20: for fixed search results, page p (1-based) with page size limit holds
\* the filtered items at positions (p-1)*limit+1 .. p*limit in order, with ids
\* news_<position>; total_count is the number of filtered items; has_more is
\* true if and only if items remain after this page; so following has_more
\* from page 1 visits every filtered item exactly once.
C20_Pages ==
  /\ NewsReturned =>
       LET r == ret.val
           p == args.page
           limit == args.limit
           n == Len(Filtered)
           positions == {k \in 1..n : (p - 1) * limit + 1 <= k /\ k <= p * limit}
       IN  /\ r.total_count = n
           /\ Len(r.items) = Cardinality(positions)
           /\ \A i \in 1..Len(r.items) :
                LET k == (p - 1) * limit + i
                IN  /\ k \in positions
                    /\ r.items[i].id = <<"news", k>>
                    /\ r.items[i].url = Filtered[k].url
                    /\ r.items[i].title = Filtered[k].title
           /\ r.has_more <=> (\E k \in 1..n : k > p * limit)
  /\ ReadToEnd =>
       LET read == ItemsRead(pages)
       IN  /\ Len(read) = Len(Filtered)
           /\ \A k \in 1..Len(read) :
                read[k].id = <<"news", k>> /\ read[k].url = Filtered[k].url

\* The reader has read to the end over more than one page, of search results
\* of which the filter has dropped one.
C20_Witness ==
  /\ ReadToEnd /\ Len(pages) >= 2
  /\ Len(Filtered) >= 2
  /\ Len(Filtered) < Len(args.search_result.results)
  /\ Len(ret.val.items) >= 1

\* ==================================================================
\* dart_financial_loader.py: DartFinancialLoader.load_financials
\* ==================================================================

\* Python's None where the other values are records.
NoData == [kind |-> "none"]

\* datetime.now(): the year and the month.
DartClocks == [year : {2025, 2026}, month : {1, 3, 4, 12}]

DartTickers == {"005930", "000000"}

\* What get_corp_code does: raises (the download fails), or returns None (no
\* such stock code), an empty corp_code, or the corp_code.
CorpCodeOutcomes ==
  {Raise("HTTPError"), Value(None), Value(""), Value("00126380")}

\* Tables of DART: rows of account_nm and thstrm_amount, the amount <<v>> when
\* float() reads it and <<>> when float() raises.
DartRow(account_nm, amount) == [account_nm |-> account_nm, thstrm_amount |-> amount]
DartTables ==
  {<<DartRow("revenue", <<100>>), DartRow("basic_eps(loss)", <<5>>)>>,
   <<DartRow("total_assets", <<>>), DartRow("goodwill", <<7>>),
     DartRow("diluted_eps", <<3>>), DartRow("basic_eps", <<4>>)>>}

\* What get_financials does: raises (status not 000 or 013, or the request
\* fails), or returns a frame, empty when the answer has no list.
DataFrame(rows) == [kind |-> "df", rows |-> rows]
FinancialsOutcomes ==
  {Raise("RuntimeError"), Value(DataFrame(<<>>))}
    \cup {Value(DataFrame(t)) : t \in DartTables}

\* year = current_year - 1 if datetime.now().month < 4 else current_year
BusinessYearOfClock(clock) == clock.year
BusinessYear(clock) ==
  IF clock.month < 4 THEN clock.year - 1 ELSE clock.year

\* report_attempts
report_attempts(year) ==
  <<[year |-> year, reprt_code |-> "11014"],
    [year |-> year, reprt_code |-> "11012"],
    [year |-> year - 1, reprt_code |-> "11011"]>>

\* key_accounts
key_accounts ==
  <<"revenue", "operating_income(loss)", "net_income(loss)",
    "net_income(loss)_of_owners", "total_assets", "total_liabilities",
    "total_equity", "equity_of_owners", "operating_cash_flow",
    "investing_cash_flow", "financing_cash_flow", "basic_eps(loss)">>

\* df[cond], for a condition on account_nm
RECURSIVE RowsWhere(_, _)
RowsWhere(rows, names) ==
  IF Len(rows) = 0 THEN <<>>
  ELSE (IF rows[1].account_nm \in names THEN <<rows[1]>> ELSE <<>>)
         \o RowsWhere(Tail(rows), names)

\* The line of the first row of the selection: none when there is no row or
\* float() raises.
AmountLine(label, row) ==
  IF Len(row) > 0 /\ Len(row[1].thstrm_amount) > 0
  THEN <<[label |-> label, amount |-> row[1].thstrm_amount[1]]>>
  ELSE <<>>

RECURSIVE AccountLines(_, _)
AccountLines(rows, accounts) ==
  IF Len(accounts) = 0 THEN <<>>
  ELSE AmountLine(accounts[1], RowsWhere(rows, {accounts[1]}))
         \o AccountLines(rows, Tail(accounts))

\* The account names that hold the name of the basic earnings per share.
ContainsBasicEps == {"basic_eps(loss)", "basic_eps"}

\* _dataframe_to_text(df, ticker)
_dataframe_to_text(df, ticker) ==
  [kind |-> "str",
   lines |-> <<[label |-> "#", amount |-> 0]>>
               \o AccountLines(df.rows, key_accounts)
               \o AmountLine("EPS", RowsWhere(df.rows, ContainsBasicEps)),
   ticker |-> ticker]

\* df after the attempts made: what the last attempt that did not raise
\* returned, None before.
RECURSIVE DfAfter(_)
DfAfter(outcomes) ==
  IF Len(outcomes) = 0 THEN NoData
  ELSE LET o == outcomes[Len(outcomes)]
       IN  IF o.kind = "value" THEN o.val
           ELSE DfAfter(SubSeq(outcomes, 1, Len(outcomes) - 1))

\* df is not None and not df.empty
HasData(df) == df # NoData /\ Len(df.rows) > 0

NoFinancials == [text |-> NoData, df |-> NoData]

\* ---------------------------------------------------------- actions

\* load_financials(ticker) up to the loop over report_attempts
load_financials ==
  /\ pc = "idle" /\ op = "none"
  /\ \E ticker \in DartTickers, clock \in DartClocks, corp \in CorpCodeOutcomes :
       /\ op' = "load_financials"
       /\ IF corp.kind = "raise" \/ corp.val \in {None, ""}
          THEN /\ args' = [ticker |-> ticker, clock |-> clock, corp |-> corp]
               /\ ret' = Value(NoFinancials)
               /\ pc' = "idle"
          ELSE /\ args' = [ticker |-> ticker, clock |-> clock, corp |-> corp,
                           corp_code |-> corp.val, year |-> BusinessYear(clock)]
               /\ ret' = NoRet
               /\ pc' = "report_attempts"
  /\ sent' = <<>> /\ pages' = <<>>
  /\ UNCHANGED <<instance, retry, locals>>

\* One turn of the loop, and what follows the loop when it ends here.
report_attempt ==
  /\ pc = "report_attempts" /\ op = "load_financials"
  /\ Len(sent) < Len(report_attempts(args.year))
  /\ \E o \in FinancialsOutcomes :
       LET a == report_attempts(args.year)[Len(sent) + 1]
           outcomes == Append(pages, o)
           df == DfAfter(outcomes)
           break == o.kind = "value" /\ HasData(o.val)
           done == break \/ Len(outcomes) = Len(report_attempts(args.year))
       IN  /\ sent' = Append(sent, [corp_code |-> args.corp_code, year |-> a.year,
                                    reprt_code |-> a.reprt_code, fs_div |-> "CFS"])
           /\ pages' = outcomes
           /\ IF ~done THEN pc' = pc /\ ret' = ret
              ELSE /\ pc' = "idle"
                   /\ ret' = IF ~HasData(df) THEN Value(NoFinancials)
                             ELSE Value([text |-> _dataframe_to_text(df, args.ticker),
                                         df |-> df])
  /\ UNCHANGED <<instance, retry, locals, op, args>>

DartNext ==
  \/ load_financials /\ UNCHANGED disk
  \/ report_attempt /\ UNCHANGED disk
  \/ discard /\ UNCHANGED disk

DartSpec == Init /\ [][DartNext]_vars

\* ------------------------------------------------------------ claims

\* load_financials is running or has returned.
Loading == op = "load_financials"
Loaded == Loading /\ pc = "idle"

\* The corp code is unknown: get_corp_code gave none.
CorpUnknown == "corp_code" \notin DOMAIN args

\* Attempt i yielded a non-empty table.
Yields(i) == pages[i].kind = "value" /\ HasData(pages[i].val)

\* The report types in the fixed order, for the clock of the call.
ExpectedAttempts ==
  LET Y == IF args.clock.month < 4 THEN args.clock.year - 1 ELSE args.clock.year
  IN  <<<<Y, "11014">>, <<Y, "11012">>, <<Y - 1, "11011">>>>

\* C21: load_financials tries Q3 report (11014) of year Y, half-year report
\* (11012) of year Y, annual report (11011) of year Y-1, in this order, Y the
\* previous year before April and the current year otherwise; it returns the
\* data of the first attempt that yields a non-empty table; an attempt that
\* raises or is empty moves on to the next; no attempt is made after a
\* success; it returns (None, None) exactly when no attempt yields data or
\* the corp code is unknown.
C21_ReportAttempts ==
  Loading =>
    /\ Len(sent) = Len(pages) /\ Len(sent) <= 3
    /\ \A i \in 1..Len(sent) :
         /\ <<sent[i].year, sent[i].reprt_code>> = ExpectedAttempts[i]
         /\ Yields(i) => i = Len(sent) /\ Loaded
    /\ CorpUnknown => Len(sent) = 0 /\ Loaded
    /\ (Loaded /\ ~CorpUnknown) =>
         \/ Len(sent) = 3
         \/ Len(sent) > 0 /\ Yields(Len(sent))
    /\ Loaded =>
         /\ ret.val = NoFinancials
              <=> (CorpUnknown \/ \A i \in 1..Len(pages) : ~Yields(i))
         /\ \A i \in 1..Len(pages) :
              Yields(i) =>
                /\ ret.val.df = pages[i].val
                /\ ret.val.text = _dataframe_to_text(pages[i].val, args.ticker)

\* The annual report of the year before the previous one has given the data,
\* after an attempt that raised and one that was empty, before April.
C21_Witness ==
  /\ Loaded /\ Len(sent) = 3 /\ Yields(3)
  /\ args.clock.month < 4
  /\ sent[3].year = args.clock.year - 2
  /\ pages[1].kind = "raise" /\ pages[2].kind = "value"
  /\ ret.val # NoFinancials

\* ==================================================================
\* financial_analyzer.py: FinancialAnalyzer.calculate_financial_ratios
\* ==================================================================

\* A cell of thstrm_amount: a number, a string that spells a number with
\* thousands separators, or a string float() cannot read.
NumCell(v) == [type |-> "float", v |-> v]
StrCell(v) == [type |-> "str", spells |-> <<v>>]
BadCell == [type |-> "str", spells |-> <<>>]
Cell(form, v) == IF form = "str" THEN StrCell(v) ELSE NumCell(v)

\* The frames load_financials reads from the latest CSV file of the ticker:
\* account_nm -> thstrm_amount of the first row of that name. The amounts
\* are in units that make every ratio a multiple of 0.25.
Equities == {0, 100, 400}
Liabilities == {40, 75, 100, 175, 250}
CurrentAssets == {50, 80, 125, 150, 200}
NetIncomes == {-10, 5, 7, 10, 15, 30}
CsvFrames ==
  {[total_equity |-> Cell(form, e), total_liabilities |-> Cell(form, l),
    current_assets |-> Cell(form, ca), current_liabilities |-> Cell(form, 100),
    net_income |-> Cell(form, ni), total_assets |-> Cell(form, 400),
    revenue |-> Cell(form, 200)] :
      form \in {"float", "str"}, e \in Equities, l \in Liabilities,
      ca \in CurrentAssets, ni \in NetIncomes}
    \cup {[total_equity |-> BadCell, total_liabilities |-> NumCell(l),
           operating_income |-> NumCell(25)] : l \in Liabilities}

\* load_financials(ticker): None when no file matches
LoadedFrames == {<<>>} \cup {<<f>> : f \in CsvFrames}

\* extract_value(df, account_name)
extract_value(df, account_name) ==
  IF account_name \notin DOMAIN df THEN 0
  ELSE LET value == df[account_name]
       IN  IF value.type = "float" THEN value.v
           ELSE IF Len(value.spells) > 0 THEN value.spells[1]
           ELSE 0

\* (num / den * 100) if den > 0 else 0, in hundredths of a percent
Pct(num, den) == IF den > 0 THEN (num * 10000) \div den ELSE 0

\* round(ratio, 1) and f"{ratio:.1f}", in tenths: to the nearest, a tie to
\* the even one
Round1(h) ==
  LET m == IF h >= 0 THEN h ELSE -h
      q == m \div 10
      r == m % 10
      up == IF r > 5 \/ (r = 5 /\ q % 2 = 1) THEN q + 1 ELSE q
  IN  IF h >= 0 THEN up ELSE -up

\* _grade_debt_ratio(ratio)
_grade_debt_ratio(ratio) ==
  IF ratio < 5000 THEN "A+" ELSE IF ratio < 10000 THEN "A"
  ELSE IF ratio < 15000 THEN "B" ELSE IF ratio < 20000 THEN "C" ELSE "D"

\* _grade_current_ratio(ratio)
_grade_current_ratio(ratio) ==
  IF ratio >= 20000 THEN "A+" ELSE IF ratio >= 15000 THEN "A"
  ELSE IF ratio >= 10000 THEN "B" ELSE IF ratio >= 8000 THEN "C" ELSE "D"

\* _grade_roe(roe)
_grade_roe(roe) ==
  IF roe >= 1500 THEN "A+" ELSE IF roe >= 1000 THEN "A"
  ELSE IF roe >= 700 THEN "B" ELSE IF roe >= 500 THEN "C" ELSE "D"

\* _comment_debt_ratio(ratio)
_comment_debt_ratio(ratio) ==
  [about |-> "debt", pct |-> Round1(ratio),
   says |-> IF ratio < 5000 THEN "very safe" ELSE IF ratio < 10000 THEN "sound"
            ELSE IF ratio < 15000 THEN "adequate"
            ELSE IF ratio < 20000 THEN "rather high" ELSE "high"]

\* _comment_current_ratio(ratio)
_comment_current_ratio(ratio) ==
  [about |-> "liquidity", pct |-> Round1(ratio),
   says |-> IF ratio >= 20000 THEN "excellent" ELSE IF ratio >= 15000 THEN "sound"
            ELSE IF ratio >= 10000 THEN "adequate" ELSE "caution"]

\* _comment_roe(roe)
_comment_roe(roe) ==
  [about |-> "roe", pct |-> Round1(roe),
   says |-> IF roe >= 1500 THEN "excellent" ELSE IF roe >= 1000 THEN "sound"
            ELSE IF roe >= 700 THEN "average"
            ELSE IF roe >= 500 THEN "rather low" ELSE "needs improvement"]

\* _generate_summary(debt, roe, current)
_generate_summary(debt, roe, current) ==
  LET strengths == (IF debt < 10000 THEN <<"low debt">> ELSE <<>>)
                     \o (IF roe >= 1000 THEN <<"profitability">> ELSE <<>>)
                     \o (IF current >= 15000 THEN <<"liquidity">> ELSE <<>>)
      weaknesses == (IF debt >= 15000 THEN <<"high debt">> ELSE <<>>)
                      \o (IF roe < 700 THEN <<"low profitability">> ELSE <<>>)
                      \o (IF current < 10000 THEN <<"low liquidity">> ELSE <<>>)
  IN  [summary |-> IF Len(strengths) >= 2 THEN "excellent"
                   ELSE IF Len(weaknesses) >= 2 THEN "needs improvement"
                   ELSE "sound",
       strengths |-> strengths, weaknesses |-> weaknesses]

\* calculate_financial_ratios(ticker), loaded the frame that load_financials
\* returns
calculate_financial_ratios(loaded) ==
  IF Len(loaded) = 0 THEN [error |-> "no financial data"]
  ELSE LET df == loaded[1]
           total_assets == extract_value(df, "total_assets")
           total_liabilities == extract_value(df, "total_liabilities")
           total_equity == extract_value(df, "total_equity")
           current_assets == extract_value(df, "current_assets")
           current_liabilities == extract_value(df, "current_liabilities")
           net_income == extract_value(df, "net_income")
           revenue == extract_value(df, "revenue")
           operating_income == extract_value(df, "operating_income")
           debt_ratio == Pct(total_liabilities, total_equity)
           current_ratio == Pct(current_assets, current_liabilities)
           ROE == Pct(net_income, total_equity)
           ROA == Pct(net_income, total_assets)
           operating_margin == Pct(operating_income, revenue)
       IN  [ratios |-> [debt_ratio |-> Round1(debt_ratio),
                        current_ratio |-> Round1(current_ratio),
                        roe |-> Round1(ROE), roa |-> Round1(ROA),
                        operating_margin |-> Round1(operating_margin)],
            grades |-> [debt |-> _grade_debt_ratio(debt_ratio),
                        liquidity |-> _grade_current_ratio(current_ratio),
                        profitability |-> _grade_roe(ROE),
                        overall |-> "B+"],
            comments |-> [debt |-> _comment_debt_ratio(debt_ratio),
                          liquidity |-> _comment_current_ratio(current_ratio),
                          profitability |-> _comment_roe(ROE),
                          summary |-> _generate_summary(debt_ratio, ROE, current_ratio)],
            raw_data |-> [total_assets |-> total_assets,
                          total_liabilities |-> total_liabilities,
                          total_equity |-> total_equity,
                          net_income |-> net_income]]

\* ---------------------------------------------------------- actions

analyze ==
  \E ticker \in DartTickers, loaded \in LoadedFrames :
    Call("calculate_financial_ratios", [ticker |-> ticker, loaded |-> loaded],
         Value(calculate_financial_ratios(loaded)))

AnalyzerNext ==
  \/ analyze /\ UNCHANGED disk
  \/ discard /\ UNCHANGED disk

AnalyzerSpec == Init /\ [][AnalyzerNext]_vars

\* ------------------------------------------------------------ claims

\* The grades from the worst to the best.
GradeRank(g) ==
  CASE g = "D" -> 0 [] g = "C" -> 1 [] g = "B" -> 2 [] g = "B+" -> 3
    [] g = "A" -> 4 [] g = "A+" -> 5

\* C22: in the result of calculate_financial_ratios, grades.overall is the
\* average of the three individual grades (debt, liquidity, profitability):
\* it is no worse than the worst of them and no better than the best.
C22_OverallIsAverage ==
  (op = "calculate_financial_ratios" /\ "error" \notin DOMAIN ret.val) =>
    LET g == ret.val.grades
        ranks == {GradeRank(g.debt), GradeRank(g.liquidity), GradeRank(g.profitability)}
    IN  /\ \E r \in ranks : r <= GradeRank(g.overall)
        /\ \E r \in ranks : r >= GradeRank(g.overall)

\* ==================================================================
\* kakao_report_formatter.py: format_for_kakao on reports that lack raw_data
\* or fields of it
\* ==================================================================

\* raw_data['basic'] with some of its fields, or none
PartialBasics ==
  {<<>>, [current_price |-> 71300], [price_change |-> -1200],
   [price_change |-> 1200, price_change_pct |-> 2],
   [current_price |-> 71300, price_change |-> 1200],
   [current_price |-> 71300, price_change |-> -1200, price_change_pct |-> -2]}

\* raw_data with some of its fields, or none
PartialRawData ==
  {<<>>} \cup {[basic |-> b] : b \in PartialBasics}
         \cup {[metrics |-> m] : m \in Metrics}
         \cup {[basic |-> b, metrics |-> m] : b \in PartialBasics, m \in Metrics}

\* Reports with metadata.ticker, metadata.company_name and report.sections,
\* without raw_data or with a part of it.
PartialReports ==
  LET Meta(t) == [ticker |-> t, company_name |-> CompanyName(t)]
  IN  {[metadata |-> Meta(t), report |-> [sections |-> s]] :
         t \in ReportTickers, s \in Sections}
        \cup {[metadata |-> Meta(t), report |-> [sections |-> s], raw_data |-> r] :
                t \in ReportTickers, s \in Sections, r \in PartialRawData}

kakao_partial_report ==
  \E r \in PartialReports, u \in DetailUrls :
    Call("KakaoReportFormatter.format_for_kakao",
         [report_data |-> r, detail_url |-> u], report_format_for_kakao(r, u))

PartialReportNext ==
  \/ kakao_partial_report /\ UNCHANGED disk
  \/ discard /\ UNCHANGED disk

PartialReportSpec == Init /\ [][PartialReportNext]_vars

\* ------------------------------------------------------------ claims

\* format_for_kakao has been called with a report that contains
\* metadata.ticker, metadata.company_name and report.sections.
FormattedReport ==
  /\ op = "KakaoReportFormatter.format_for_kakao"
  /\ {"metadata", "report"} \subseteq DOMAIN args.report_data
  /\ {"ticker", "company_name"} \subseteq DOMAIN args.report_data.metadata
  /\ "sections" \in DOMAIN args.report_data.report

\* The fields of raw_data of the report, {} for what is absent.
RawOf(field) == Get(Get(args.report_data, "raw_data", <<>>), field, <<>>)

\* The summary has the value of the field of the report, or the default.
Defaulted(part, from, field, default) ==
  IF field \in DOMAIN RawOf(from)
  THEN ret.val.summary[part][field] = RawOf(from)[field]
  ELSE ret.val.summary[part][field] = default

DefaultsUsed ==
  /\ Defaulted("basic_info", "basic", "current_price", "N/A")
  /\ Defaulted("basic_info", "basic", "price_change", 0)
  /\ Defaulted("basic_info", "basic", "price_change_pct", 0)
  /\ \A k \in {"per", "pbr", "roe"} : Defaulted("key_metrics", "metrics", k, "N/A")

\* C23: format_for_kakao returns a response and does not raise for every
\* report that contains metadata.ticker, metadata.company_name and
\* report.sections, using 'N/A' for current price and PER/PBR/ROE and 0 for
\* price change when raw_data or any of its fields is absent.
C23_NoRaise ==
  FormattedReport =>
    /\ ret.kind = "value"
    /\ "kakao_response" \in DOMAIN ret.val
    /\ DefaultsUsed

\* The same for the reports whose raw_data.basic has current_price.
C23_WithCurrentPrice ==
  (FormattedReport /\ "current_price" \in DOMAIN RawOf("basic")) => C23_NoRaise

====
